---- MODULE Spec2Model ----
(***************************************************************************)
(* A model of the schema.org processor of genie-toolkit                    *)
(* (tool/webqa-process-schemaorg.js): the graph builder, the type          *)
(* classifier, the property type resolver, the compound type builder, the  *)
(* canonical phrase synthesizer and the emitter; and of the stream          *)
(* ParaphraseHITCreator of the same file and of Normalizer._processResult. *)
(***************************************************************************)
EXTENDS Integers, Sequences, FiniteSets, TLC

VARIABLES
    pc,         \* position of run(): "read", "classify", "cycles", "propagate",
                \* "sort", "emit", "done", "aborted"; "idle" outside run()
    input,      \* the triples of the '@graph' read so far, in order
    keys,       \* the keys of typeHierarchy in insertion order
    th,         \* typeHierarchy: th[i] is the definition of type keys[i]
    ekeys,      \* the keys of enums in insertion order
    enums,      \* enums: type name -> sequence of declared instances
    order,      \* the Set `order` of run(), in insertion order
    hasGeo,     \* this._hasGeo
    output,     \* the function definitions handed to the class definition
    err,        \* the error that aborted run(), "" when none
    runs,       \* how many times run() has completed on this instance
    firstOutput,\* what the first completed run() produced
    cfg,        \* the instance configuration (manual, always_base_canonical, ...)
    rq,         \* the arguments of the last direct call of a pure function
    rs,         \* the value that call returned
    creator,    \* the ParaphraseHITCreator: _sentencesPerTask, _i and _buffer
    pushed,     \* the objects the ParaphraseHITCreator has pushed, in order
    normalizer  \* the Normalizer: output, dbIncIds and includeOrder

vars == <<pc, input, keys, th, ekeys, enums, order, hasGeo, output, err, runs,
          firstOutput, cfg, rq, rs, creator, pushed, normalizer>>

(***************************************************************************)
(* Strings.  A string is a sequence of characters; the helpers below are   *)
(* the String methods and regular expressions the program uses.            *)
(***************************************************************************)
UpperLetters == "ABCDEFGHIJKLMNOPQRSTUVWXYZ"
LowerLetters == "abcdefghijklmnopqrstuvwxyz"

CharAt(s, i) == SubSeq(s, i, i)

IsUpper(c) == \E i \in 1..Len(UpperLetters) : CharAt(UpperLetters, i) = c
IsLower(c) == \E i \in 1..Len(LowerLetters) : CharAt(LowerLetters, i) = c

LowerChar(c) ==
    IF IsUpper(c)
    THEN CharAt(LowerLetters, CHOOSE i \in 1..Len(UpperLetters) : CharAt(UpperLetters, i) = c)
    ELSE c

RECURSIVE ToLowerCase(_)
ToLowerCase(s) ==
    IF Len(s) = 0 THEN ""
    ELSE LowerChar(CharAt(s, 1)) \o ToLowerCase(SubSeq(s, 2, Len(s)))

StartsWith(s, p) == Len(s) >= Len(p) /\ SubSeq(s, 1, Len(p)) = p
EndsWith(s, p) == Len(s) >= Len(p) /\ SubSeq(s, Len(s) - Len(p) + 1, Len(s)) = p
Includes(s, p) == \E i \in 1..(Len(s) - Len(p) + 1) : SubSeq(s, i, i + Len(p) - 1) = p

\* /^an? /i.test(comment)
StartsWithIndefiniteArticle(comment) ==
    LET c == ToLowerCase(SubSeq(comment, 1, IF Len(comment) < 3 THEN Len(comment) ELSE 3))
    IN  StartsWith(c, "a ") \/ StartsWith(c, "an ")

\* /word/i.test(s)
TestIgnoreCase(s, word) == Includes(ToLowerCase(s), word)

SeqToSet(s) == { s[i] : i \in 1..Len(s) }
InSeq(x, s) == \E i \in 1..Len(s) : s[i] = x

RECURSIVE SelectSeqBy(_, _)
\* s.filter(x => x \notin drop)
SelectSeqBy(s, drop) ==
    IF s = <<>> THEN <<>>
    ELSE IF Head(s) \in drop THEN SelectSeqBy(Tail(s), drop)
         ELSE <<Head(s)>> \o SelectSeqBy(Tail(s), drop)

(***************************************************************************)
(* The static tables of the program.                                       *)
(***************************************************************************)
\* A ThingTalk type: a base type (kind, with its entity name, unit or compound
\* name in arg, its enumerands in values, its compound fields in fields) under
\* depth levels of Type.Array.  "None" is undefined; "Error" is a thrown error.
Scalar(k) == [kind |-> k, arg |-> "", depth |-> 0, values |-> <<>>, fields |-> <<>>]
NoType == Scalar("None")
Entity(name) == [Scalar("Entity") EXCEPT !.arg = name]
Measure(unit) == [Scalar("Measure") EXCEPT !.arg = unit]
EnumType(values) == [Scalar("Enum") EXCEPT !.values = values]
Compound(name, fields) == [Scalar("Compound") EXCEPT !.arg = name, !.fields = fields]
ArrayOf(t) == [t EXCEPT !.depth = @ + 1]
Thrown(msg) == [Scalar("Error") EXCEPT !.arg = msg]

IsError(t) == t.kind = "Error"
IsNone(t) == t.kind = "None"
IsArrayType(t) == t.kind \notin {"None", "Error"} /\ t.depth > 0
IsBooleanType(t) == t.kind = "Boolean" /\ t.depth = 0
IsEnumType(t) == t.kind = "Enum" /\ t.depth = 0
IsMeasureType(t) == t.kind = "Measure" /\ t.depth = 0

BUILTIN_NAMES ==
    {"Time", "Number", "Float", "Integer", "Text", "Boolean", "DateTime", "Date",
     "DataType", "URL", "ImageObject", "Barcode", "Mass", "Energy", "Distance",
     "Duration", "GeoCoordinates", "MonetaryAmount", "QuantitativeValue"}

BUILTIN_TYPEMAP(name) ==
    CASE name = "Time" -> Scalar("Time")
      [] name \in {"Number", "Float", "Integer"} -> Scalar("Number")
      [] name = "Text" -> Scalar("String")
      [] name = "Boolean" -> Scalar("Boolean")
      [] name \in {"DateTime", "Date"} -> Scalar("Date")
      [] name \in {"DataType", "QuantitativeValue"} -> Scalar("Any")
      [] name = "URL" -> Entity("tt:url")
      [] name \in {"ImageObject", "Barcode"} -> Entity("tt:picture")
      [] name = "Mass" -> Measure("kg")
      [] name = "Energy" -> Measure("kcal")
      [] name = "Distance" -> Measure("m")
      [] name = "Duration" -> Measure("ms")
      [] name = "GeoCoordinates" -> Scalar("Location")
      [] name = "MonetaryAmount" -> Scalar("Currency")

KEYWORDS ==
    {"let", "now", "new", "as", "of", "in", "out", "req", "opt", "notify", "return",
     "join", "edge", "monitor", "class", "extends", "mixin", "this", "import", "null",
     "enum", "aggregate", "dataset", "oninput", "sort", "asc", "desc", "bookkeeping",
     "compute", "true", "false"}

BLACKLISTED_TYPES ==
    {"QualitativeValue", "PropertyValue", "BedType", "MedicalBusiness", "Researcher"}

BLACKLISTED_PROPERTIES ==
    {"sameAs", "affiliation", "mainEntityOfPage", "embedUrl", "itemReviewed",
     "bestRating", "worstRating", "reviewBody", "eligibleTransactionVolume",
     "addOn", "areaServed", "priceCurrency"}

STRUCTURED_HIERARCHIES == <<"StructuredValue", "Rating", "Offer">>

NON_STRUCT_TYPES == {}

PROPERTY_FORCE_ARRAY == {"worksFor", "recipeCuisine", "recipeCategory"}

PROPERTY_FORCE_NOT_ARRAY == {"offers"}

PROPERTY_TYPE_OVERRIDE_NAMES ==
    {"telephone", "email", "image", "logo", "checkinTime", "checkoutTime", "price",
     "weight", "depth", "description", "addressCountry", "addressRegion", "video",
     "publisher", "recipeYield"}

PROPERTY_TYPE_OVERRIDE(name) ==
    CASE name = "telephone" -> Entity("tt:phone_number")
      [] name = "email" -> Entity("tt:email_address")
      [] name \in {"image", "logo"} -> Entity("tt:picture")
      [] name \in {"checkinTime", "checkoutTime"} -> Scalar("Time")
      [] name = "price" -> Scalar("Currency")
      [] name = "weight" -> Measure("ms")
      [] name = "depth" -> Measure("m")
      [] name \in {"description", "recipeYield"} -> Scalar("String")
      [] name = "addressCountry" -> Entity("tt:country")
      [] name = "addressRegion" -> Entity("tt:us_state")
      [] name = "video" -> Entity("org.schema:VideoObject")
      [] name = "publisher" -> Entity("org.schema:Organization")

PROPERTIES_NO_FILTER == {"name", "priceRange", "gtin13", "productID", "mpn"}

PROPERTIES_DROP_WITH_GEO == {"streetAddress", "addressLocality"}

STRUCT_INCLUDE_THING_PROPERTIES == {"LocationFeatureSpecification"}

ITEM_SUFFIXES == <<"List", "Collection", "Section", "Catalog">>

\* this._prefix, with the default --class-name
Prefix == "org.schema:"

StackOverflow == "RangeError: Maximum call stack size exceeded"

(***************************************************************************)
(* GraphBuilder: the loop of run() over the triples of the '@graph'.       *)
(***************************************************************************)
SchemaOrgUrl == "http://schema.org/"

\* getId; the assertion failure is the empty id (no id the program uses is empty)
getId(id) ==
    IF StartsWith(id, SchemaOrgUrl)
    THEN SubSeq(id, Len(SchemaOrgUrl) + 1, Len(id))
    ELSE ""

NewType ==
    [extends |-> <<>>, properties |-> <<>>, isAction |-> FALSE, isEnum |-> FALSE,
     enum |-> <<>>, isItemList |-> FALSE, itemType |-> "",
     isStructSubType |-> FALSE, representAsStruct |-> FALSE]

\* a graph under construction: the typeHierarchy (keys in insertion order), the
\* enums and the error thrown, if any
EmptyGraph == [keys |-> <<>>, th |-> <<>>, enums |-> <<>>, ekeys |-> <<>>, err |-> ""]

Has(g, typename) == InSeq(typename, g.keys)

ensureType(g, typename) ==
    IF Has(g, typename) THEN g
    ELSE [g EXCEPT !.keys = Append(@, typename), !.th = Append(@, NewType)]

KeyIndex(ks, typename) == CHOOSE i \in 1..Len(ks) : ks[i] = typename

ensureEnum(g, enumname) ==
    IF InSeq(enumname, g.ekeys) THEN g
    ELSE [g EXCEPT !.ekeys = Append(@, enumname), !.enums = Append(@, <<>>)]

\* properties[name] = def: a new key goes last, an old key keeps its place
SetProperty(props, def) ==
    IF \E i \in 1..Len(props) : props[i].name = def.name
    THEN [i \in 1..Len(props) |-> IF props[i].name = def.name THEN def ELSE props[i]]
    ELSE Append(props, def)

RECURSIVE AddPropertyToDomains(_, _, _)
AddPropertyToDomains(g, domains, def) ==
    IF domains = <<>> THEN g
    ELSE LET domain == Head(domains)
         IN  IF domain \in BUILTIN_NAMES \/ domain \in BLACKLISTED_TYPES
             THEN AddPropertyToDomains(g, Tail(domains), def)
             ELSE LET g1 == ensureType(g, domain)
                      i == KeyIndex(g1.keys, domain)
                      g2 == [g1 EXCEPT !.th[i].properties = SetProperty(@, def)]
                  IN  AddPropertyToDomains(g2, Tail(domains), def)

RECURSIVE MapGetId(_)
MapGetId(ids) == IF ids = <<>> THEN <<>> ELSE <<getId(Head(ids))>> \o MapGetId(Tail(ids))

TripleIsSkipped(triple) ==
    \/ getId(triple.id) \in BUILTIN_NAMES
    \/ getId(triple.id) \in BLACKLISTED_TYPES

TripleIsEnum(triple) == StartsWith(triple.type, SchemaOrgUrl)

\* the body of the loop passing over a triple of a type it does not know
ProcessTripleSkippingUnknown(g, triple) ==
    LET name == getId(triple.id) IN
    IF name = "" THEN [g EXCEPT !.err = "AssertionError"]
    ELSE IF TripleIsSkipped(triple) THEN g
    ELSE IF TripleIsEnum(triple)
    THEN LET g1 == ensureEnum(g, getId(triple.type))
             i == KeyIndex(g1.ekeys, getId(triple.type))
         IN  [g1 EXCEPT !.enums[i] = Append(@, name)]
    ELSE IF triple.type = "rdf:Property"
    THEN IF triple.supersededBy THEN g
         ELSE IF InSeq("", MapGetId(triple.domainIncludes))
                 \/ InSeq("", MapGetId(triple.rangeIncludes))
         THEN [g EXCEPT !.err = "AssertionError"]
         ELSE IF name \in BLACKLISTED_PROPERTIES THEN g
         ELSE AddPropertyToDomains(g, MapGetId(triple.domainIncludes),
                  [name |-> name, types |-> MapGetId(triple.rangeIncludes),
                   comment |-> triple.comment])
    ELSE IF triple.type = "rdfs:Class"
    THEN IF InSeq("", MapGetId(triple.subClassOf))
         THEN [g EXCEPT !.err = "AssertionError"]
         ELSE
         LET g1 == ensureType(g, name)
             i == KeyIndex(g1.keys, name)
             ext == SelectSeqBy(MapGetId(triple.subClassOf), BLACKLISTED_TYPES)
         IN  [g1 EXCEPT !.th[i].extends =
                 IF ext = <<>> /\ name # "Thing" THEN <<"Thing">> ELSE ext]
    ELSE g

\* the body of the loop over the triples, for one triple
ProcessTriple(g, triple) ==
    LET name == getId(triple.id) IN
    IF name = "" THEN [g EXCEPT !.err = "AssertionError"]
    ELSE IF TripleIsSkipped(triple) THEN g
    ELSE IF TripleIsEnum(triple)
    THEN LET g1 == ensureEnum(g, getId(triple.type))
             i == KeyIndex(g1.ekeys, getId(triple.type))
         IN  [g1 EXCEPT !.enums[i] = Append(@, name)]
    ELSE IF triple.type = "rdf:Property"
    THEN IF triple.supersededBy THEN g
         ELSE IF InSeq("", MapGetId(triple.domainIncludes))
                 \/ InSeq("", MapGetId(triple.rangeIncludes))
         THEN [g EXCEPT !.err = "AssertionError"]
         ELSE IF name \in BLACKLISTED_PROPERTIES THEN g
         ELSE AddPropertyToDomains(g, MapGetId(triple.domainIncludes),
                  [name |-> name, types |-> MapGetId(triple.rangeIncludes),
                   comment |-> triple.comment])
    ELSE IF triple.type = "rdfs:Class"
    THEN IF InSeq("", MapGetId(triple.subClassOf))
         THEN [g EXCEPT !.err = "AssertionError"]
         ELSE
         LET g1 == ensureType(g, name)
             i == KeyIndex(g1.keys, name)
             ext == SelectSeqBy(MapGetId(triple.subClassOf), BLACKLISTED_TYPES)
         IN  [g1 EXCEPT !.th[i].extends =
                 IF ext = <<>> /\ name # "Thing" THEN <<"Thing">> ELSE ext]
    ELSE [g EXCEPT !.err = "don't know how to handle a triple of type " \o triple.type]

(***************************************************************************)
(* TypeClassifier: the flags of every type, cycle breaking and the         *)
(* propagation of non-struct status to the parents.                        *)
(***************************************************************************)
Def(g, typename) == g.th[KeyIndex(g.keys, typename)]

RECURSIVE isSubClassOver(_, _, _, _)
\* the loop of isSubClass over the extends list exts; stack holds the types whose
\* isSubClass call is in progress: calling one of them again never returns
\* ("overflow": the call stack is exhausted, a RangeError is thrown)
isSubClassOver(g, exts, subtypeof, stack) ==
    IF exts = <<>> THEN "false"
    ELSE LET _extend == Head(exts) IN
         IF _extend = subtypeof THEN "true"
         ELSE IF ~Has(g, _extend) THEN isSubClassOver(g, Tail(exts), subtypeof, stack)
         ELSE IF _extend \in stack THEN "overflow"
         ELSE LET r == isSubClassOver(g, Def(g, _extend).extends, subtypeof,
                                      stack \cup {_extend})
              IN  IF r = "false" THEN isSubClassOver(g, Tail(exts), subtypeof, stack)
                  ELSE r

isSubClass(g, typename, subtypeof) ==
    isSubClassOver(g, Def(g, typename).extends, subtypeof, {typename})

RECURSIVE getItemTypeFrom(_, _, _)
\* getItemType returning the name without the suffix whether or not it is a
\* type of the hierarchy
getItemTypeFromAnyRemainder(typename, g, suffixes) ==
    IF suffixes = <<>> THEN "Thing"
    ELSE IF EndsWith(typename, Head(suffixes))
         THEN SubSeq(typename, 1, Len(typename) - Len(Head(suffixes)))
         ELSE getItemTypeFrom(typename, g, Tail(suffixes))

getItemTypeFrom(typename, g, suffixes) ==
    IF suffixes = <<>> THEN "Thing"
    ELSE IF EndsWith(typename, Head(suffixes))
         THEN LET itemname == SubSeq(typename, 1, Len(typename) - Len(Head(suffixes)))
              IN  IF Has(g, itemname) THEN itemname ELSE "Thing"
         ELSE getItemTypeFrom(typename, g, Tail(suffixes))

getItemType(typename, g) == getItemTypeFrom(typename, g, ITEM_SUFFIXES)

\* what getItemType writes with console.error: the line after the loop, which
\* is reached when the loop returns for no suffix
getItemTypeConsoleError(typename) ==
    IF \E k \in 1..Len(ITEM_SUFFIXES) : EndsWith(typename, ITEM_SUFFIXES[k])
    THEN <<>>
    ELSE <<"ItemList subclass " \o typename \o " does not have a recognized suffix">>

RECURSIVE isStructSubClass(_, _, _)
\* the loop over STRUCTURED_HIERARCHIES of a type that is not one of them
isStructSubClass(g, type, bases) ==
    IF bases = <<>> THEN "false"
    ELSE LET r == isSubClass(g, type, Head(bases))
         IN  IF r = "false" THEN isStructSubClass(g, type, Tail(bases)) ELSE r

HasEnum(g, type) == InSeq(type, g.ekeys)
EnumOf(g, type) == IF HasEnum(g, type) THEN g.enums[KeyIndex(g.ekeys, type)] ELSE <<>>

\* the body of the first loop over typeHierarchy, for one type: the classified
\* definition, and whether a subclass test overflowed the stack
ClassifyType(g, type) ==
    LET isAction == isSubClass(g, type, "Action")
        isEnumSub == IF HasEnum(g, type) THEN "true" ELSE isSubClass(g, type, "Enumeration")
        isItemList == isSubClass(g, type, "ItemList")
        isStruct == IF InSeq(type, STRUCTURED_HIERARCHIES) THEN "true"
                    ELSE isStructSubClass(g, type, STRUCTURED_HIERARCHIES)
        forced == type \in NON_STRUCT_TYPES
    IN  [overflow |-> "overflow" \in {isAction, isEnumSub, isItemList, isStruct},
         def |-> [Def(g, type) EXCEPT
                    !.isAction = (isAction = "true"),
                    !.isEnum = (isEnumSub = "true"),
                    !.enum = IF isEnumSub = "true" THEN EnumOf(g, type) ELSE <<>>,
                    !.isItemList = (isItemList = "true"),
                    !.itemType = IF isItemList = "true" THEN getItemType(type, g) ELSE "",
                    !.isStructSubType = (isStruct = "true") /\ ~forced,
                    !.representAsStruct = (isStruct = "true") /\ ~forced]]

RECURSIVE ClassifyFrom(_, _)
ClassifyFrom(g, i) ==
    IF i > Len(g.keys) THEN g
    ELSE LET c == ClassifyType(g, g.keys[i])
         IN  IF c.overflow THEN [g EXCEPT !.err = StackOverflow]
             ELSE ClassifyFrom([g EXCEPT !.th[i] = c.def], i + 1)

Classify(g) == ClassifyFrom(g, 1)

RECURSIVE findCycle(_, _, _, _)
RECURSIVE findCycleProps(_, _, _, _, _)
RECURSIVE findCycleTypes(_, _, _, _, _)
\* findCycle returns [found, visited]: the Set visited is shared by the whole search
findCycle(g, typename, lookfor, visited) ==
    IF typename \in visited THEN [found |-> typename = lookfor, visited |-> visited]
    ELSE findCycleProps(g, Def(g, typename).properties, 1, lookfor,
                        visited \cup {typename})

findCycleProps(g, props, i, lookfor, visited) ==
    IF i > Len(props) THEN [found |-> FALSE, visited |-> visited]
    ELSE LET r == findCycleTypes(g, props[i].types, 1, lookfor, visited)
         IN  IF r.found THEN r ELSE findCycleProps(g, props, i + 1, lookfor, r.visited)

findCycleTypes(g, types, j, lookfor, visited) ==
    IF j > Len(types) THEN [found |-> FALSE, visited |-> visited]
    ELSE LET type == types[j] IN
         IF type \in BUILTIN_NAMES
         THEN findCycleTypes(g, types, j + 1, lookfor, visited)
         ELSE IF ~Has(g, type) \/ ~Def(g, type).representAsStruct
         THEN findCycleTypes(g, types, j + 1, lookfor, visited)
         ELSE LET r == findCycle(g, type, lookfor, visited)
              IN  IF r.found THEN r
                  ELSE findCycleTypes(g, types, j + 1, lookfor, r.visited)

RECURSIVE BreakCyclesFrom(_, _)
RECURSIVE BreakCyclesBackwards(_, _)
\* the loop over the types taken from the last type to the first
BreakCyclesBackwards(g, i) ==
    LET k == Len(g.keys) + 1 - i IN
    IF i > Len(g.keys) THEN g
    ELSE IF g.th[k].isEnum \/ ~g.th[k].representAsStruct THEN BreakCyclesBackwards(g, i + 1)
    ELSE IF findCycle(g, g.keys[k], g.keys[k], {}).found
         THEN BreakCyclesBackwards([g EXCEPT !.th[k].representAsStruct = FALSE], i + 1)
         ELSE BreakCyclesBackwards(g, i + 1)

\* the loop making non-struct the types with themselves among the candidates
\* of their own properties only
BreakCyclesSelfLoopsOnly(g, i) ==
    IF i > Len(g.keys) THEN g
    ELSE IF g.th[i].isEnum \/ ~g.th[i].representAsStruct THEN BreakCyclesFrom(g, i + 1)
    ELSE IF \E n \in 1..Len(g.th[i].properties) : InSeq(g.keys[i], g.th[i].properties[n].types)
         THEN BreakCyclesFrom([g EXCEPT !.th[i].representAsStruct = FALSE], i + 1)
         ELSE BreakCyclesFrom(g, i + 1)

\* the loop "check all types - if they form a cycle, we cannot represent them as
\* structs"
BreakCyclesFrom(g, i) ==
    IF i > Len(g.keys) THEN g
    ELSE IF g.th[i].isEnum \/ ~g.th[i].representAsStruct THEN BreakCyclesFrom(g, i + 1)
    ELSE IF findCycle(g, g.keys[i], g.keys[i], {}).found
         THEN BreakCyclesFrom([g EXCEPT !.th[i].representAsStruct = FALSE], i + 1)
         ELSE BreakCyclesFrom(g, i + 1)

BreakCycles(g) == BreakCyclesFrom(g, 1)

RECURSIVE recursiveMakeNonStruct(_, _, _)
RECURSIVE recursiveMakeNonStructOver(_, _, _)
\* stack: the types whose recursiveMakeNonStruct call is in progress
recursiveMakeNonStruct(g, typename, stack) ==
    IF typename \in stack THEN [g EXCEPT !.err = StackOverflow]
    ELSE LET i == KeyIndex(g.keys, typename)
             g1 == [g EXCEPT !.th[i].representAsStruct = FALSE]
         IN  recursiveMakeNonStructOver(g1, g1.th[i].extends, stack \cup {typename})

\* recursiveMakeNonStruct leaving the parents alone
recursiveMakeNonStructNoParents(g, exts, stack) == g

recursiveMakeNonStructOver(g, exts, stack) ==
    IF exts = <<>> \/ g.err # "" THEN g
    ELSE IF ~Has(g, Head(exts)) THEN recursiveMakeNonStructOver(g, Tail(exts), stack)
    ELSE recursiveMakeNonStructOver(recursiveMakeNonStruct(g, Head(exts), stack),
                                    Tail(exts), stack)

RECURSIVE PropagateFrom(_, _)
\* the loop "all parents of non-struct types must also be non-struct types"
PropagateFrom(g, i) ==
    IF i > Len(g.keys) \/ g.err # "" THEN g
    ELSE IF g.th[i].isEnum \/ g.th[i].representAsStruct THEN PropagateFrom(g, i + 1)
    ELSE PropagateFrom(recursiveMakeNonStruct(g, g.keys[i], {}), i + 1)

Propagate(g) == PropagateFrom(g, 1)

RECURSIVE toposort(_, _, _, _)
RECURSIVE toposortOver(_, _, _, _)
\* toposort returns the Set order (in insertion order), or <<"overflow">> when
\* the recursion never returns; no type is named "overflow".
\* toposortBeforeParents is toposort adding the type before its parents.
toposortBeforeParents(g, typename, ord, stack) ==
    LET d == Def(g, typename) IN
    IF d.isAction \/ d.isEnum \/ d.representAsStruct THEN ord
    ELSE IF typename \in stack THEN <<"overflow">>
    ELSE toposortOver(g, d.extends,
                      IF InSeq(typename, ord) THEN ord ELSE Append(ord, typename),
                      stack \cup {typename})

toposort(g, typename, ord, stack) ==
    LET d == Def(g, typename) IN
    IF d.isAction \/ d.isEnum \/ d.representAsStruct THEN ord
    ELSE IF typename \in stack THEN <<"overflow">>
    ELSE LET o == toposortOver(g, d.extends, ord, stack \cup {typename})
         IN  IF o = <<"overflow">> THEN o
             ELSE IF InSeq(typename, o) THEN o ELSE Append(o, typename)

toposortOver(g, exts, ord, stack) ==
    IF exts = <<>> \/ ord = <<"overflow">> THEN ord
    ELSE IF ~Has(g, Head(exts)) THEN toposortOver(g, Tail(exts), ord, stack)
    ELSE toposortOver(g, Tail(exts), toposort(g, Head(exts), ord, stack), stack)

RECURSIVE SortFrom(_, _, _)
SortFrom(g, i, ord) ==
    IF i > Len(g.keys) \/ ord = <<"overflow">> THEN ord
    ELSE IF InSeq(g.keys[i], ord) THEN SortFrom(g, i + 1, ord)
    ELSE SortFrom(g, i + 1, toposort(g, g.keys[i], ord, {}))

Sort(g) == SortFrom(g, 1, <<>>)

(***************************************************************************)
(* CanonicalPhraseSynthesizer: makeArgCanonical and addCanonical.          *)
(***************************************************************************)
\* a canonical record; a key the program leaves out is the empty sequence
Canonical(base, verb, passive_verb, adjective, property, reverse_property) ==
    [base |-> base, verb |-> verb, passive_verb |-> passive_verb,
     adjective |-> adjective, property |-> property,
     reverse_property |-> reverse_property]

EmptyCanonical == Canonical(<<>>, <<>>, <<>>, <<>>, <<>>, <<>>)

PROPERTY_CANONICAL_OVERRIDE_NAMES ==
    {"url", "name", "description", "geo", "streetAddress", "addressCountry",
     "addressRegion", "addressLocality"}

PROPERTY_CANONICAL_OVERRIDE(name) ==
    CASE name = "url" -> [EmptyCanonical EXCEPT !.base = <<"url", "link">>]
      [] name = "name" ->
            [EmptyCanonical EXCEPT !.base = <<"name">>, !.passive_verb = <<"called">>]
      [] name = "description" ->
            [EmptyCanonical EXCEPT !.base = <<"description", "summary">>]
      [] name = "geo" ->
            [EmptyCanonical EXCEPT !.base = <<"location", "address">>,
                !.passive_verb = <<"in #", "around #", "at #", "on #">>]
      [] name = "streetAddress" -> [EmptyCanonical EXCEPT !.base = <<"street">>]
      [] name = "addressCountry" ->
            [EmptyCanonical EXCEPT !.passive_verb = <<"in #">>, !.base = <<"country">>]
      [] name = "addressRegion" ->
            [EmptyCanonical EXCEPT !.passive_verb = <<"in #">>, !.base = <<"state">>]
      [] name = "addressLocality" -> [EmptyCanonical EXCEPT !.base = <<"city">>]

MANUAL_PROPERTY_CANONICAL_OVERRIDE_NAMES ==
    {"datePublished", "ratingValue", "reviewRating", "telephone", "servesCuisine",
     "amenityFeature", "checkinTime", "checkoutTime", "alumniOf", "award",
     "affiliation", "worksFor", "author", "publisher", "prepTime", "cookTime",
     "totalTime", "recipeYield", "recipeCategory", "recipeIngredient",
     "recipeInstructions", "recipeCuisines", "reviewBody", "saturatedFatContent",
     "mpn"}

MANUAL_PROPERTY_CANONICAL_OVERRIDE(name) ==
    CASE name = "datePublished" ->
            [EmptyCanonical EXCEPT !.passive_verb = <<"published on #", "written on #">>,
                !.base = <<"date published">>]
      [] name = "ratingValue" ->
            [EmptyCanonical EXCEPT !.passive_verb = <<"rated # star">>,
                !.base = <<"rating">>]
      [] name = "reviewRating" -> [EmptyCanonical EXCEPT !.base = <<"rating">>]
      [] name = "telephone" ->
            [EmptyCanonical EXCEPT !.base = <<"telephone", "phone number">>]
      [] name = "servesCuisine" ->
            [EmptyCanonical EXCEPT !.adjective = <<"#">>,
                !.verb = <<"serves # cuisine", "serves # food", "offer # cuisine",
                           "offer # food", "serves", "offers">>,
                !.property = <<"# cuisine", "# food">>,
                !.base = <<"cuisine", "food type">>]
      [] name = "amenityFeature" ->
            [EmptyCanonical EXCEPT !.base = <<"amenity", "amenity feature">>,
                !.verb = <<"offers #", "offer #", "has #", "have #">>]
      [] name = "checkinTime" ->
            [EmptyCanonical EXCEPT
                !.base = <<"checkin time", "check in time", "check-in time">>]
      [] name = "checkoutTime" ->
            [EmptyCanonical EXCEPT
                !.base = <<"checkout time", "check out time", "check-out time">>]
      [] name = "alumniOf" ->
            [EmptyCanonical EXCEPT
                !.base = <<"college degrees", "universities", "alma maters">>,
                !.reverse_property = <<"alumni of #", "alumnus of #", "alumna of #",
                    "# alumnus", "# alumni", "# grad", "# graduate">>,
                !.verb = <<"went to #", "graduated from #", "attended #", "studied at #">>,
                !.passive_verb = <<"educated at #", "graduated from #">>]
      [] name = "award" ->
            [EmptyCanonical EXCEPT !.base = <<"awards">>,
                !.reverse_property = <<"winner of #", "recipient of #", "# winner",
                    "# awardee", "# recipient", "# holder">>,
                !.verb = <<"has the award #", "has received the # award",
                    "won the award for #", "won the # award", "received the # award",
                    "received the #", "won the #", "won #", "holds the award for #",
                    "holds the # award">>]
      [] name = "affiliation" ->
            [EmptyCanonical EXCEPT !.base = <<"affiliations">>,
                !.reverse_property = <<"member of #">>,
                !.passive_verb = <<"affiliated with #", "affiliated to #">>]
      [] name = "worksFor" ->
            [EmptyCanonical EXCEPT !.base = <<"employers">>,
                !.reverse_property = <<"employee of #", "# employee">>,
                !.verb = <<"works for #", "works at #", "worked at #", "worked for #">>,
                !.passive_verb = <<"employed at #", "employed by #">>]
      [] name = "author" ->
            [EmptyCanonical EXCEPT !.base = <<"author", "creator">>,
                !.passive_verb = <<"by", "made by", "written by", "created by",
                    "authored by", "uploaded by", "submitted by">>]
      [] name = "publisher" ->
            [EmptyCanonical EXCEPT !.base = <<"publisher">>,
                !.passive_verb = <<"by", "made by", "published by">>]
      [] name = "prepTime" ->
            [EmptyCanonical EXCEPT
                !.verb = <<"takes # to prepare", "needs # to prepare">>,
                !.base = <<"prep time", "preparation time", "time to prep",
                           "time to prepare">>]
      [] name = "cookTime" ->
            [EmptyCanonical EXCEPT !.verb = <<"takes # to cook", "needs # to cook">>,
                !.base = <<"cook time", "cooking time", "time to cook">>]
      [] name = "totalTime" ->
            [EmptyCanonical EXCEPT
                !.verb = <<"takes #", "requires #", "needs #", "uses #", "consumes #">>,
                !.base = <<"total time", "time in total", "time to make">>]
      [] name = "recipeYield" ->
            [EmptyCanonical EXCEPT
                !.verb = <<"yields #", "feeds #", "produces #", "results in #",
                           "is good for #">>,
                !.passive_verb = <<"yielding #">>,
                !.base = <<"yield amount", "yield size">>]
      [] name = "recipeCategory" -> [EmptyCanonical EXCEPT !.base = <<"categories">>]
      [] name = "recipeIngredient" ->
            [EmptyCanonical EXCEPT !.verb = <<"contains", "uses", "has">>,
                !.passive_verb = <<"containing", "using">>,
                !.base = <<"ingredients">>]
      [] name = "recipeInstructions" ->
            [EmptyCanonical EXCEPT !.base = <<"instructions">>]
      [] name = "recipeCuisines" ->
            [EmptyCanonical EXCEPT !.adjective = <<"#">>,
                !.verb = <<"belongs to the # cuisine">>,
                !.base = <<"cuisines", "cuisine">>]
      [] name = "reviewBody" ->
            [EmptyCanonical EXCEPT !.base = <<"body", "text", "content">>]
      [] name = "saturatedFatContent" ->
            [EmptyCanonical EXCEPT
                !.base = <<"saturated fat content", "saturated fat amount",
                           "saturated fat", "trans fat">>]
      [] name = "mpn" -> [EmptyCanonical EXCEPT !.base = <<"manufacturer part number">>]

RECURSIVE Split(_, _)
\* s.split(sep), sep one character
Split(s, sep) ==
    IF \E i \in 1..Len(s) : CharAt(s, i) = sep
    THEN LET i == CHOOSE k \in 1..Len(s) :
                     CharAt(s, k) = sep /\ \A j \in 1..(k - 1) : CharAt(s, j) # sep
         IN  <<SubSeq(s, 1, i - 1)>> \o Split(SubSeq(s, i + 1, Len(s)), sep)
    ELSE <<s>>

\* s.replace(c, by), c one character: the first occurrence only
ReplaceFirst(s, c, by) ==
    IF \E i \in 1..Len(s) : CharAt(s, i) = c
    THEN LET i == CHOOSE k \in 1..Len(s) :
                     CharAt(s, k) = c /\ \A j \in 1..(k - 1) : CharAt(s, j) # c
         IN  SubSeq(s, 1, i - 1) \o by \o SubSeq(s, i + 1, Len(s))
    ELSE s

RECURSIVE ReplaceAll(_, _, _)
\* s.replace(/c/g, by), c one character
ReplaceAll(s, c, by) ==
    IF Len(s) = 0 THEN ""
    ELSE (IF CharAt(s, 1) = c THEN by ELSE CharAt(s, 1))
            \o ReplaceAll(SubSeq(s, 2, Len(s)), c, by)

RECURSIVE SplitCamel(_, _)
\* s.replace(/([^A-Z ])([A-Z])/g, '$1 $2'), from position i on
SplitCamel(s, i) ==
    IF i > Len(s) THEN ""
    ELSE (IF i > 1 /\ IsUpper(CharAt(s, i)) /\ ~IsUpper(CharAt(s, i - 1))
             /\ CharAt(s, i - 1) # " "
          THEN " " ELSE "") \o CharAt(s, i) \o SplitCamel(s, i + 1)

\* clean of lib/utils: the identifier split into lower-case words
clean(name) ==
    LET n == IF Len(name) >= 2 /\ CharAt(name, 2) = "_"
                /\ CharAt(name, 1) \in {"v", "w", "g", "p"}
             THEN SubSeq(name, 3, Len(name)) ELSE name
    IN  ToLowerCase(SplitCamel(ReplaceAll(n, "_", " "), 1))

\* pluralize of lib/utils: the plural of the last word of the phrase
pluralize(name) ==
    IF Len(name) = 0 THEN name
    ELSE IF EndsWith(name, "s") \/ EndsWith(name, "x") THEN name \o "es"
    ELSE IF EndsWith(name, "y") /\ Len(name) >= 2
            /\ CharAt(name, Len(name) - 1) \notin {"a", "e", "i", "o", "u"}
         THEN SubSeq(name, 1, Len(name) - 1) \o "ies"
    ELSE name \o "s"

NOUN_TAGS == {"NN", "NNS", "NNP", "NNPS"}

\* the tag en-pos gives a word when the tagger of the configuration does not
\* list the phrase
LexiconTag(word) ==
    CASE word \in {"works", "serves", "has", "contains", "is"} -> "VBZ"
      [] word \in {"available", "open", "free"} -> "JJ"
      [] word \in {"published", "founded", "contained"} -> "VBN"
      [] word \in {"of", "for", "in", "at"} -> "IN"
      [] OTHER -> "NN"

\* posTag: the tags of the tokens, one per token
posTag(tokens, c) ==
    IF \E k \in 1..Len(c.tagger) : c.tagger[k].tokens = tokens
    THEN (c.tagger[CHOOSE k \in 1..Len(c.tagger) : c.tagger[k].tokens = tokens]).tags
    ELSE [i \in 1..Len(tokens) |-> LexiconTag(tokens[i])]

\* /^[a-z ]+$/.test(name)
OnlyLettersAndSpaces(name) ==
    Len(name) > 0 /\ \A i \in 1..Len(name) : IsLower(CharAt(name, i)) \/ CharAt(name, i) = " "

\* addCanonical without the rule for the names that start with "is "
addCanonicalNoIsRule(canonical, name0, ptype, c) ==
    LET lower == ToLowerCase(name0) IN
    IF ~OnlyLettersAndSpaces(lower) THEN canonical
    ELSE
    LET name == IF IsArrayType(ptype) THEN pluralize(lower) ELSE lower IN
    IF EndsWith(name, " content") /\ IsMeasureType(ptype)
    THEN LET n == SubSeq(name, 1, Len(name) - Len(" content"))
         IN  [canonical EXCEPT
                !.verb = @ \o <<"contains #" \o ReplaceAll(n, " ", "_")>>,
                !.base = @ \o <<n \o " content", n, n \o " amount">>]
    ELSE IF StartsWith(name, "has ")
    THEN [canonical EXCEPT !.base = @ \o <<SubSeq(name, Len("has ") + 1, Len(name))>>]
    ELSE LET tags == posTag(Split(name, " "), c) IN
         IF tags[1] \in {"VBP", "VBZ", "VBD"}
         THEN IF Len(tags) = 2 /\ tags[2] \in NOUN_TAGS
              THEN [canonical EXCEPT !.verb = @ \o <<ReplaceFirst(name, " ", " # ")>>,
                                     !.base = @ \o <<Split(name, " ")[2]>>]
              ELSE [canonical EXCEPT !.verb = @ \o <<name>>]
         ELSE IF EndsWith(name, " of")
         THEN [canonical EXCEPT !.reverse_property = @ \o <<name>>]
         ELSE IF tags[1] \in {"VBN", "VBG", "JJ", "JJR"} /\ tags[Len(tags)] \notin NOUN_TAGS
         THEN [canonical EXCEPT !.passive_verb = @ \o <<name>>]
         ELSE [canonical EXCEPT !.base = @ \o <<name>>]

\* addCanonical taking the present-tense tags only for a verb
addCanonicalPresentTenseOnly(canonical, name0, ptype, c) ==
    LET lower == ToLowerCase(name0) IN
    IF ~OnlyLettersAndSpaces(lower) THEN canonical
    ELSE
    LET name == IF IsArrayType(ptype) THEN pluralize(lower) ELSE lower IN
    IF EndsWith(name, " content") /\ IsMeasureType(ptype)
    THEN LET n == SubSeq(name, 1, Len(name) - Len(" content"))
         IN  [canonical EXCEPT
                !.verb = @ \o <<"contains #" \o ReplaceAll(n, " ", "_")>>,
                !.base = @ \o <<n \o " content", n, n \o " amount">>]
    ELSE IF StartsWith(name, "has ")
    THEN [canonical EXCEPT !.base = @ \o <<SubSeq(name, Len("has ") + 1, Len(name))>>]
    ELSE IF StartsWith(name, "is ")
    THEN LET n == SubSeq(name, Len("is ") + 1, Len(name))
             tags == posTag(Split(n, " "), c)
         IN  IF tags[Len(tags)] \in NOUN_TAGS \/ EndsWith(n, " of")
             THEN [canonical EXCEPT !.reverse_property = @ \o <<n>>]
             ELSE IF tags[1] \in {"VBN", "JJ", "JJR"}
             THEN [canonical EXCEPT !.passive_verb = @ \o <<n>>]
             ELSE canonical
    ELSE LET tags == posTag(Split(name, " "), c) IN
         IF tags[1] \in {"VBP", "VBZ"}
         THEN IF Len(tags) = 2 /\ tags[2] \in NOUN_TAGS
              THEN [canonical EXCEPT !.verb = @ \o <<ReplaceFirst(name, " ", " # ")>>,
                                     !.base = @ \o <<Split(name, " ")[2]>>]
              ELSE [canonical EXCEPT !.verb = @ \o <<name>>]
         ELSE IF EndsWith(name, " of")
         THEN [canonical EXCEPT !.reverse_property = @ \o <<name>>]
         ELSE IF tags[1] \in {"VBN", "VBG", "JJ", "JJR"} /\ tags[Len(tags)] \notin NOUN_TAGS
         THEN [canonical EXCEPT !.passive_verb = @ \o <<name>>]
         ELSE [canonical EXCEPT !.base = @ \o <<name>>]

addCanonical(canonical, name0, ptype, c) ==
    LET lower == ToLowerCase(name0) IN
    IF ~OnlyLettersAndSpaces(lower) THEN canonical
    ELSE
    LET name == IF IsArrayType(ptype) THEN pluralize(lower) ELSE lower IN
    IF EndsWith(name, " content") /\ IsMeasureType(ptype)
    THEN LET n == SubSeq(name, 1, Len(name) - Len(" content"))
         IN  [canonical EXCEPT
                !.verb = @ \o <<"contains #" \o ReplaceAll(n, " ", "_")>>,
                !.base = @ \o <<n \o " content", n, n \o " amount">>]
    ELSE IF StartsWith(name, "has ")
    THEN [canonical EXCEPT !.base = @ \o <<SubSeq(name, Len("has ") + 1, Len(name))>>]
    ELSE IF StartsWith(name, "is ")
    THEN LET n == SubSeq(name, Len("is ") + 1, Len(name))
             tags == posTag(Split(n, " "), c)
         IN  IF tags[Len(tags)] \in NOUN_TAGS \/ EndsWith(n, " of")
             THEN [canonical EXCEPT !.reverse_property = @ \o <<n>>]
             ELSE IF tags[1] \in {"VBN", "JJ", "JJR"}
             THEN [canonical EXCEPT !.passive_verb = @ \o <<n>>]
             ELSE canonical
    ELSE LET tags == posTag(Split(name, " "), c) IN
         IF tags[1] \in {"VBP", "VBZ", "VBD"}
         THEN IF Len(tags) = 2 /\ tags[2] \in NOUN_TAGS
              THEN [canonical EXCEPT !.verb = @ \o <<ReplaceFirst(name, " ", " # ")>>,
                                     !.base = @ \o <<Split(name, " ")[2]>>]
              ELSE [canonical EXCEPT !.verb = @ \o <<name>>]
         ELSE IF EndsWith(name, " of")
         THEN [canonical EXCEPT !.reverse_property = @ \o <<name>>]
         ELSE IF tags[1] \in {"VBN", "VBG", "JJ", "JJR"} /\ tags[Len(tags)] \notin NOUN_TAGS
         THEN [canonical EXCEPT !.passive_verb = @ \o <<name>>]
         ELSE [canonical EXCEPT !.base = @ \o <<name>>]

cleanName(name) ==
    LET n == clean(name)
    IN  IF EndsWith(n, " value") THEN SubSeq(n, 1, Len(n) - Len(" value")) ELSE n

RECURSIVE Dedup(_, _)
\* [...new Set(candidates)]
Dedup(candidates, seen) ==
    IF candidates = <<>> THEN <<>>
    ELSE IF Head(candidates) \in seen THEN Dedup(Tail(candidates), seen)
    ELSE <<Head(candidates)>> \o Dedup(Tail(candidates), seen \cup {Head(candidates)})

HasLabels(c, name) == \E k \in 1..Len(c.wikidata_labels) : c.wikidata_labels[k].name = name
LabelsOf(c, name) ==
    (c.wikidata_labels[CHOOSE k \in 1..Len(c.wikidata_labels) :
                            c.wikidata_labels[k].name = name]).labels

RECURSIVE addCanonicalAll(_, _, _, _)
addCanonicalAll(canonical, candidates, ptype, c) ==
    IF candidates = <<>> THEN canonical
    ELSE addCanonicalAll(addCanonical(canonical, Head(candidates), ptype, c),
                         Tail(candidates), ptype, c)

\* makeArgCanonical looking at the labels before the manual table
makeArgCanonicalLabelsFirst(name, ptype, c) ==
    IF name \in PROPERTY_CANONICAL_OVERRIDE_NAMES THEN PROPERTY_CANONICAL_OVERRIDE(name)
    ELSE IF c.manual /\ name \in MANUAL_PROPERTY_CANONICAL_OVERRIDE_NAMES
            /\ ~HasLabels(c, name)
    THEN MANUAL_PROPERTY_CANONICAL_OVERRIDE(name)
    ELSE LET candidates == IF HasLabels(c, name) THEN LabelsOf(c, name)
                           ELSE <<cleanName(name)>>
             canonical == addCanonicalAll(EmptyCanonical, Dedup(candidates, {}), ptype, c)
         IN  IF canonical.base = <<>> /\ c.always_base_canonical
             THEN [canonical EXCEPT !.base = <<name>>]
             ELSE canonical

\* makeArgCanonical adding the base form whatever always_base_canonical is
makeArgCanonicalAlwaysBase(name, ptype, c) ==
    IF name \in PROPERTY_CANONICAL_OVERRIDE_NAMES THEN PROPERTY_CANONICAL_OVERRIDE(name)
    ELSE IF c.manual /\ name \in MANUAL_PROPERTY_CANONICAL_OVERRIDE_NAMES
    THEN MANUAL_PROPERTY_CANONICAL_OVERRIDE(name)
    ELSE LET candidates == IF HasLabels(c, name) THEN LabelsOf(c, name)
                           ELSE <<cleanName(name)>>
             canonical == addCanonicalAll(EmptyCanonical, Dedup(candidates, {}), ptype, c)
         IN  IF canonical.base = <<>>
             THEN [canonical EXCEPT !.base = <<name>>]
             ELSE canonical

\* makeArgCanonical adding the base form only to a canonical with no form
makeArgCanonicalBaseWhenEmpty(name, ptype, c) ==
    IF name \in PROPERTY_CANONICAL_OVERRIDE_NAMES THEN PROPERTY_CANONICAL_OVERRIDE(name)
    ELSE IF c.manual /\ name \in MANUAL_PROPERTY_CANONICAL_OVERRIDE_NAMES
    THEN MANUAL_PROPERTY_CANONICAL_OVERRIDE(name)
    ELSE LET candidates == IF HasLabels(c, name) THEN LabelsOf(c, name)
                           ELSE <<cleanName(name)>>
             canonical == addCanonicalAll(EmptyCanonical, Dedup(candidates, {}), ptype, c)
         IN  IF canonical = EmptyCanonical /\ c.always_base_canonical
             THEN [canonical EXCEPT !.base = <<name>>]
             ELSE canonical

makeArgCanonical(name, ptype, c) ==
    IF name \in PROPERTY_CANONICAL_OVERRIDE_NAMES THEN PROPERTY_CANONICAL_OVERRIDE(name)
    ELSE IF c.manual /\ name \in MANUAL_PROPERTY_CANONICAL_OVERRIDE_NAMES
    THEN MANUAL_PROPERTY_CANONICAL_OVERRIDE(name)
    ELSE LET candidates == IF HasLabels(c, name) THEN LabelsOf(c, name)
                           ELSE <<cleanName(name)>>
             canonical == addCanonicalAll(EmptyCanonical, Dedup(candidates, {}), ptype, c)
         IN  IF canonical.base = <<>> /\ c.always_base_canonical
             THEN [canonical EXCEPT !.base = <<name>>]
             ELSE canonical

(***************************************************************************)
(* PropertyTypeResolver and CompoundTypeBuilder: typeToThingTalk,          *)
(* getBestPropertyType and makeCompoundType call one another.  geo is      *)
(* this._hasGeo, c the configuration, stack the types whose                *)
(* makeCompoundType (or item-list conversion) is in progress: entering one *)
(* of them again never returns, and the call stack overflows.              *)
(***************************************************************************)
\* the score of one candidate type in getBestPropertyType
Score(g, type) ==
    IF Has(g, type) /\ Def(g, type).isEnum THEN 5
    ELSE IF type = "Text" THEN 2
    ELSE IF type \in BUILTIN_NAMES THEN 4
    ELSE IF ~Has(g, type) THEN -1
    ELSE IF Has(g, "isItemList") THEN 0   \* typeHierarchy.isItemList
    ELSE IF Def(g, type).representAsStruct THEN 3
    ELSE 1

RECURSIVE BestFrom(_, _, _, _)
\* the scoring loop from candidate i on; best = "" while bestScore is -Infinity
BestFrom(g, types, i, best) ==
    IF i > Len(types) THEN best
    ELSE IF best.type = "" \/ Score(g, types[i]) > best.score
         THEN BestFrom(g, types, i + 1, [type |-> types[i], score |-> Score(g, types[i])])
         ELSE BestFrom(g, types, i + 1, best)

BestCandidate(g, types) == BestFrom(g, types, 1, [type |-> "", score |-> -1])

\* isArray as computed before the scoring loop
ArrayHeuristic(propname, property, g) ==
    LET fromTypes == \E i \in 1..Len(property.types) :
                        Has(g, property.types[i]) /\ Def(g, property.types[i]).isItemList
        fromComment == fromTypes \/ StartsWithIndefiniteArticle(property.comment)
        forced == fromComment \/ propname \in PROPERTY_FORCE_ARRAY
    IN  IF propname \in PROPERTY_FORCE_NOT_ARRAY THEN FALSE ELSE forced

NoResult == [best |-> "", type |-> NoType]

RECURSIVE recursiveCollectProperties(_, _, _, _, _)
RECURSIVE recursiveCollectOver(_, _, _, _, _)
\* recursiveCollectProperties storing the property of a type over the one of
\* the same name that is collected already
recursiveCollectOverwriting(g, startingTypename, typename, all, cstack) ==
    IF ~Has(g, typename) THEN all
    ELSE IF typename \in cstack THEN [all EXCEPT !.overflow = TRUE]
    ELSE IF startingTypename \notin STRUCT_INCLUDE_THING_PROPERTIES
            /\ ~Def(g, typename).isStructSubType
    THEN all
    ELSE LET own == Def(g, typename).properties
             new == SelectSeq(own, LAMBDA d :
                        ~\E k \in 1..Len(all.props) : all.props[k].name = d.name)
             old == [k \in 1..Len(all.props) |->
                        IF \E n \in 1..Len(own) : own[n].name = all.props[k].name
                        THEN own[CHOOSE n \in 1..Len(own) : own[n].name = all.props[k].name]
                        ELSE all.props[k]]
             all1 == [all EXCEPT !.props = old \o new]
         IN  IF startingTypename \notin STRUCT_INCLUDE_THING_PROPERTIES
                /\ InSeq(typename, STRUCTURED_HIERARCHIES)
             THEN all1
             ELSE recursiveCollectOver(g, startingTypename, Def(g, typename).extends,
                                       all1, cstack \cup {typename})

\* recursiveCollectProperties going up to every parent and taking the
\* properties of every type
recursiveCollectEverything(g, startingTypename, typename, all, cstack) ==
    IF ~Has(g, typename) THEN all
    ELSE IF typename \in cstack THEN [all EXCEPT !.overflow = TRUE]
    ELSE LET own == Def(g, typename).properties
             new == SelectSeq(own, LAMBDA d :
                        ~\E k \in 1..Len(all.props) : all.props[k].name = d.name)
             all1 == [all EXCEPT !.props = @ \o new]
         IN  recursiveCollectOver(g, startingTypename, Def(g, typename).extends,
                                  all1, cstack \cup {typename})

\* all: [props, overflow]; cstack: the types whose call is in progress
recursiveCollectProperties(g, startingTypename, typename, all, cstack) ==
    IF ~Has(g, typename) THEN all
    ELSE IF typename \in cstack THEN [all EXCEPT !.overflow = TRUE]
    ELSE IF startingTypename \notin STRUCT_INCLUDE_THING_PROPERTIES
            /\ ~Def(g, typename).isStructSubType
    THEN all
    ELSE LET own == Def(g, typename).properties
             new == SelectSeq(own, LAMBDA d :
                        ~\E k \in 1..Len(all.props) : all.props[k].name = d.name)
             all1 == [all EXCEPT !.props = @ \o new]
         IN  IF startingTypename \notin STRUCT_INCLUDE_THING_PROPERTIES
                /\ InSeq(typename, STRUCTURED_HIERARCHIES)
             THEN all1
             ELSE recursiveCollectOver(g, startingTypename, Def(g, typename).extends,
                                       all1, cstack \cup {typename})

recursiveCollectOver(g, startingTypename, exts, all, cstack) ==
    IF exts = <<>> \/ all.overflow THEN all
    ELSE recursiveCollectOver(g, startingTypename, Tail(exts),
            recursiveCollectProperties(g, startingTypename, Head(exts), all, cstack),
            cstack)

RECURSIVE typeToThingTalk(_, _, _, _, _)
RECURSIVE getBestPropertyType(_, _, _, _, _, _)
RECURSIVE makeCompoundType(_, _, _, _, _)
RECURSIVE CompoundFields(_, _, _, _, _, _)

\* Type.Array(elem), an error thrown while converting elem passing through
ArrayOrError(elem) == IF IsError(elem) THEN elem ELSE ArrayOf(elem)

\* typeToThingTalk on a type of the hierarchy, d its definition
typeToThingTalkOf(typename, d, g, geo, c, stack) ==
    IF d.isItemList
    THEN IF <<"list", typename>> \in stack THEN Thrown(StackOverflow)
         ELSE ArrayOrError(typeToThingTalk(d.itemType, g, geo, c,
                                           stack \cup {<<"list", typename>>}))
    ELSE IF d.isEnum /\ Len(d.enum) > 0 THEN EnumType(d.enum)
    ELSE IF d.representAsStruct THEN makeCompoundType(typename, g, geo, c, stack)
    ELSE Entity(Prefix \o typename)

typeToThingTalk(typename, g, geo, c, stack) ==
    IF typename \in BUILTIN_NAMES THEN BUILTIN_TYPEMAP(typename)
    ELSE IF ~Has(g, typename) THEN Thrown("TypeError")
    ELSE typeToThingTalkOf(typename, Def(g, typename), g, geo, c, stack)

\* the end of getBestPropertyType: tttype is typeToThingTalk(best), isArray the
\* flag after "if we chose an item list as the best type"
WrapType(best, tttype, isArray) ==
    IF IsError(tttype) THEN [best |-> best, type |-> tttype]
    ELSE IF isArray /\ ~IsBooleanType(tttype) /\ ~IsEnumType(tttype)
    THEN [best |-> best, type |-> ArrayOf(tttype)]
    ELSE [best |-> best, type |-> tttype]

\* the HACK for QuantitativeValue with Number for every name
QuantitativeValueTypeNumber(propname) == Scalar("Number")

\* the HACK for QuantitativeValue
QuantitativeValueType(propname) ==
    IF TestIgnoreCase(propname, "number") \/ TestIgnoreCase(propname, "level")
        \/ TestIgnoreCase(propname, "quantity")
    THEN Scalar("Number")
    ELSE IF TestIgnoreCase(propname, "duration") THEN Measure("ms")
    ELSE Scalar("Number")

\* getBestPropertyType wrapping the overriding type in an array as it does
\* the converted type
ResolveBestWrappingOverride(propname, best, isArray, g, geo, c, stack) ==
    IF best.type = "" \/ best.score < 0 THEN NoResult
    ELSE IF propname \in PROPERTY_TYPE_OVERRIDE_NAMES
    THEN WrapType(best.type, PROPERTY_TYPE_OVERRIDE(propname), isArray)
    ELSE IF best.type = "QuantitativeValue"
    THEN [best |-> best.type, type |-> QuantitativeValueType(propname)]
    ELSE WrapType(best.type, typeToThingTalk(best.type, g, geo, c, stack),
                  isArray /\ ~(Has(g, best.type) /\ Def(g, best.type).isItemList))

\* what the HACK for QuantitativeValue writes with console.error
QuantitativeValueConsoleError(propname) ==
    IF TestIgnoreCase(propname, "number") \/ TestIgnoreCase(propname, "level")
        \/ TestIgnoreCase(propname, "quantity") \/ TestIgnoreCase(propname, "duration")
    THEN <<>>
    ELSE <<"Cannot guess the correct type of " \o propname
             \o " of type QuantitativeValue, assuming Number">>

\* getBestPropertyType wrapping the type of a QuantitativeValue in an array as
\* it does the converted type
ResolveBestWrappingQuantitativeValue(propname, best, isArray, g, geo, c, stack) ==
    IF best.type = "" \/ best.score < 0 THEN NoResult
    ELSE IF propname \in PROPERTY_TYPE_OVERRIDE_NAMES
    THEN [best |-> best.type, type |-> PROPERTY_TYPE_OVERRIDE(propname)]
    ELSE IF best.type = "QuantitativeValue"
    THEN WrapType(best.type, QuantitativeValueType(propname), isArray)
    ELSE WrapType(best.type, typeToThingTalk(best.type, g, geo, c, stack),
                  isArray /\ ~(Has(g, best.type) /\ Def(g, best.type).isItemList))

\* getBestPropertyType keeping isArray when the best type is an item list
ResolveBestWrappingItemList(propname, best, isArray, g, geo, c, stack) ==
    IF best.type = "" \/ best.score < 0 THEN NoResult
    ELSE IF propname \in PROPERTY_TYPE_OVERRIDE_NAMES
    THEN [best |-> best.type, type |-> PROPERTY_TYPE_OVERRIDE(propname)]
    ELSE IF best.type = "QuantitativeValue"
    THEN [best |-> best.type, type |-> QuantitativeValueType(propname)]
    ELSE WrapType(best.type, typeToThingTalk(best.type, g, geo, c, stack), isArray)

\* getBestPropertyType after the scoring loop: best is its result, isArray the
\* flag computed before it
ResolveBest(propname, best, isArray, g, geo, c, stack) ==
    IF best.type = "" \/ best.score < 0 THEN NoResult
    ELSE IF propname \in PROPERTY_TYPE_OVERRIDE_NAMES
    THEN [best |-> best.type, type |-> PROPERTY_TYPE_OVERRIDE(propname)]
    ELSE IF best.type = "QuantitativeValue"
    THEN [best |-> best.type, type |-> QuantitativeValueType(propname)]
    ELSE WrapType(best.type, typeToThingTalk(best.type, g, geo, c, stack),
                  isArray /\ ~(Has(g, best.type) /\ Def(g, best.type).isItemList))

\* getBestPropertyType without the test of the black list
getBestPropertyTypeNoBlacklist(propname, property, g, geo, c, stack) ==
    ResolveBest(propname, BestCandidate(g, property.types),
                ArrayHeuristic(propname, property, g), g, geo, c, stack)

getBestPropertyType(propname, property, g, geo, c, stack) ==
    IF propname \in BLACKLISTED_PROPERTIES THEN NoResult
    ELSE ResolveBest(propname, BestCandidate(g, property.types),
                     ArrayHeuristic(propname, property, g), g, geo, c, stack)

\* the ArgumentDef makeCompoundType builds for a property resolved to r
CompoundField(propertyname, r, geo, c) ==
    [name |-> propertyname, type |-> r.type,
     canonical |-> makeArgCanonical(propertyname, r.type, c),
     org_schema_type |-> r.best,
     filterable |-> ~(propertyname \in PROPERTIES_NO_FILTER
                        \/ (geo /\ propertyname \in PROPERTIES_DROP_WITH_GEO)),
     drop |-> propertyname \notin PROPERTIES_NO_FILTER
                /\ geo /\ propertyname \in PROPERTIES_DROP_WITH_GEO]

\* one iteration of the loop over allproperties: r is the resolution of the
\* property, rest the outcome of the iterations after it
CompoundFieldStep(propertyname, r, rest, geo, c) ==
    IF IsError(r.type) THEN [fields |-> <<>>, error |-> r.type]
    ELSE IF IsNone(r.type) THEN rest
    ELSE [rest EXCEPT !.fields = <<CompoundField(propertyname, r, geo, c)>> \o @]

\* the loop of makeCompoundType over allproperties, from property i on
CompoundFields(startingTypename, props, i, g, geo, c) ==
    IF i > Len(props) THEN [fields |-> <<>>, error |-> NoType]
    ELSE CompoundFieldStep(props[i].name,
            getBestPropertyType(props[i].name, props[i], g, geo, c.cfg, c.stack),
            CompoundFields(startingTypename, props, i + 1, g, geo, c), geo, c.cfg)

\* the end of makeCompoundType without the test of anyfield
CompoundResultMaybeEmpty(startingTypename, r) ==
    IF IsError(r.error) THEN r.error ELSE Compound(startingTypename, r.fields)

\* the end of makeCompoundType: r is the outcome of the loop over allproperties
CompoundResult(startingTypename, r) ==
    IF IsError(r.error) THEN r.error
    ELSE IF r.fields = <<>>
    THEN Thrown("Struct type " \o startingTypename \o " has no fields")
    ELSE Compound(startingTypename, r.fields)

\* makeCompoundType once allproperties is collected
CompoundOf(startingTypename, all, g, geo, c, stack) ==
    IF all.overflow THEN Thrown(StackOverflow)
    ELSE CompoundResult(startingTypename,
            CompoundFields(startingTypename, all.props, 1, g, geo,
                [cfg |-> c, stack |-> stack \cup {<<"struct", startingTypename>>}]))

makeCompoundType(startingTypename, g, geo, c, stack) ==
    IF <<"struct", startingTypename>> \in stack THEN Thrown(StackOverflow)
    ELSE CompoundOf(startingTypename,
            recursiveCollectProperties(g, startingTypename, startingTypename,
                                       [props |-> <<>>, overflow |-> FALSE], {}),
            g, geo, c, stack)

(***************************************************************************)
(* Emitter: the loop of run() over the ordered types.                      *)
(***************************************************************************)
IdArg(typename) ==
    [name |-> "id", type |-> Entity(Prefix \o typename), canonical |-> EmptyCanonical,
     org_schema_type |-> "", filterable |-> FALSE, drop |-> FALSE]

NameArg ==
    [name |-> "name", type |-> Scalar("String"), canonical |-> EmptyCanonical,
     org_schema_type |-> "Text", filterable |-> FALSE, drop |-> FALSE]

\* the property name after "if (KEYWORDS.includes(propertyname))"
Renamed(name) == IF name \in KEYWORDS THEN "_" \o name ELSE name

\* the ArgumentDef run() builds for a property resolved to r
EmitArg(propertyname, r, c) ==
    [name |-> propertyname, type |-> r.type,
     canonical |-> makeArgCanonical(propertyname, r.type, c),
     org_schema_type |-> r.best,
     filterable |-> propertyname \notin PROPERTIES_NO_FILTER,
     drop |-> FALSE]

EmitArgStep(propertyname, r, rest, c) ==
    IF IsError(r.type) THEN [args |-> <<>>, error |-> r.type]
    ELSE IF IsNone(r.type) THEN rest
    ELSE [rest EXCEPT !.args = <<EmitArg(Renamed(propertyname), r, c)>> \o @]

RECURSIVE EmitArgs(_, _, _, _, _)
\* the loop over typedef.properties from property i on: [args, error]
EmitArgs(props, i, g, geo, c) ==
    IF i > Len(props) THEN [args |-> <<>>, error |-> NoType]
    ELSE EmitArgStep(props[i].name,
            getBestPropertyType(props[i].name, props[i], g, geo, c, {}),
            EmitArgs(props, i + 1, g, geo, c), c)

\* this._hasGeo as the loop sets it for one type
GeoOf(d) == \E k \in 1..Len(d.properties) : d.properties[k].name = "geo"

\* the FunctionDef of one type, r the outcome of the loop over its properties
Query(typename, d, r) ==
    [name |-> Renamed(typename), extends |-> d.extends,
     args |-> <<IdArg(typename)>> \o (IF typename # "Thing" THEN <<NameArg>> ELSE <<>>)
                \o r.args]

\* one iteration of the loop over order: geo1 is _hasGeo as set for the type,
\* r the outcome of the loop over its properties, rest that of the iterations
\* after it
EmitTypeStep(typename, d, geo1, r, rest) ==
    IF IsError(r.error) THEN [queries |-> <<>>, hasGeo |-> geo1, err |-> r.error.arg]
    ELSE [rest EXCEPT !.queries = <<Query(typename, d, r)>> \o @]

RECURSIVE EmitFrom(_, _, _, _, _)
EmitType(typename, d, g, ord, i, geo1, c) ==
    EmitTypeStep(typename, d, geo1, EmitArgs(d.properties, 1, g, geo1, c),
                 EmitFrom(g, ord, i + 1, geo1, c))

\* the loop over order generating a class for the item lists too
EmitFromWithLists(g, ord, i, geo, c) ==
    IF i > Len(ord) THEN [queries |-> <<>>, hasGeo |-> geo, err |-> ""]
    ELSE EmitType(ord[i], Def(g, ord[i]), g, ord, i, GeoOf(Def(g, ord[i])), c)

\* the loop over order setting _hasGeo after the properties of the type are
\* resolved, not before
EmitFromStaleGeo(g, ord, i, geo, c) ==
    IF i > Len(ord) THEN [queries |-> <<>>, hasGeo |-> geo, err |-> ""]
    ELSE IF ord[i] = "ItemList" \/ Def(g, ord[i]).isItemList
    THEN EmitFrom(g, ord, i + 1, geo, c)
    ELSE EmitTypeStep(ord[i], Def(g, ord[i]), GeoOf(Def(g, ord[i])),
                      EmitArgs(Def(g, ord[i]).properties, 1, g, geo, c),
                      EmitFrom(g, ord, i + 1, GeoOf(Def(g, ord[i])), c))

\* the loop over order from position i on: [queries, hasGeo, err]
EmitFrom(g, ord, i, geo, c) ==
    IF i > Len(ord) THEN [queries |-> <<>>, hasGeo |-> geo, err |-> ""]
    ELSE IF ord[i] = "ItemList" \/ Def(g, ord[i]).isItemList
    THEN EmitFrom(g, ord, i + 1, geo, c)
    ELSE EmitType(ord[i], Def(g, ord[i]), g, ord, i, GeoOf(Def(g, ord[i])), c)

\* the output is written only when the loop completes
EmitResult(r) == IF r.err # "" THEN [r EXCEPT !.queries = <<>>] ELSE r

Emit(g, ord, geo, c) == EmitResult(EmitFrom(g, ord, 1, geo, c))

(***************************************************************************)
(* run() as a whole, and the state machine that steps through it.          *)
(***************************************************************************)
RECURSIVE BuildFrom(_, _, _)
BuildFrom(g, triples, i) ==
    IF i > Len(triples) \/ g.err # "" THEN g
    ELSE BuildFrom(ProcessTriple(g, triples[i]), triples, i + 1)

\* the outcome of run(): the graph, the order, the output, _hasGeo, the error
Outcome(g, ord, e) ==
    [graph |-> g, order |-> ord, output |-> e.queries, hasGeo |-> e.hasGeo,
     err |-> e.err]

Failed(g, geo) == Outcome(g, <<>>, [queries |-> <<>>, hasGeo |-> geo, err |-> g.err])

RunEmit(g, ord, geo, c) ==
    IF ord = <<"overflow">> THEN Failed([g EXCEPT !.err = StackOverflow], geo)
    ELSE Outcome(g, ord, Emit(g, ord, geo, c))

RunSort(g, geo, c) == IF g.err # "" THEN Failed(g, geo) ELSE RunEmit(g, Sort(g), geo, c)

RunClassified(g, geo, c) ==
    IF g.err # "" THEN Failed(g, geo) ELSE RunSort(Propagate(BreakCycles(g)), geo, c)

RunBuilt(g, geo, c) ==
    IF g.err # "" THEN Failed(g, geo) ELSE RunClassified(Classify(g), geo, c)

\* run() on the triples, on an instance whose _hasGeo is geo
Run(triples, geo, c) == RunBuilt(BuildFrom(EmptyGraph, triples, 1), geo, c)

Graph == [keys |-> keys, th |-> th, ekeys |-> ekeys, enums |-> enums, err |-> err]

SetGraph(g) ==
    /\ keys' = g.keys
    /\ th' = g.th
    /\ ekeys' = g.ekeys
    /\ enums' = g.enums
    /\ err' = g.err

\* the bound on the number of triples of the '@graph'
MaxTriples == 3

S(name) == SchemaOrgUrl \o name

Triple(id, type) ==
    [id |-> S(id), type |-> type, subClassOf |-> <<>>, domainIncludes |-> <<>>,
     rangeIncludes |-> <<>>, comment |-> "", supersededBy |-> FALSE]

ClassTriple(id, parents) ==
    [Triple(id, "rdfs:Class") EXCEPT !.subClassOf = parents]

PropertyTriple(id, domains, ranges, comment) ==
    [Triple(id, "rdf:Property") EXCEPT !.domainIncludes = domains,
        !.rangeIncludes = ranges, !.comment = comment]

\* the statements a '@graph' is drawn from
ClassTriples ==
    {ClassTriple("AggregateOffer", <<S("Offer")>>),
     ClassTriple("LocalBusiness", <<S("Place")>>),
     ClassTriple("Place", <<>>),
     ClassTriple("Place", <<S("LocalBusiness")>>),
     ClassTriple("OfferCatalog", <<S("ItemList")>>),
     ClassTriple("BuyAction", <<S("Action")>>),
     ClassTriple("DayOfWeek", <<S("Enumeration")>>)}

PropertyTriples ==
    {PropertyTriple("geo", <<S("Place")>>, <<S("GeoCoordinates")>>,
                    "The geo coordinates of the place."),
     PropertyTriple("offers", <<S("Place")>>, <<S("OfferCatalog"), S("Offer")>>,
                    "An offer to provide this item."),
     PropertyTriple("streetAddress", <<S("Place"), S("Offer")>>, <<S("Text")>>,
                    "The street address."),
     PropertyTriple("itemOffered", <<S("Offer")>>, <<S("AggregateOffer")>>,
                    "The item being offered."),
     PropertyTriple("relatedOffer", <<S("AggregateOffer")>>, <<S("AggregateOffer")>>,
                    "An offer that is part of this offer."),
     PropertyTriple("sameAs", <<S("Place")>>, <<S("URL")>>,
                    "URL of a reference Web page.")}

EnumTriples == {Triple("Monday", S("DayOfWeek"))}

\* statements the loop passes over: a class of BLACKLISTED_TYPES, and the
\* statement of a builtin data type, whose '@type' is none of the three kinds
SkippedTriples == {ClassTriple("Researcher", <<>>), Triple("Text", "owl:Class")}

MalformedTriples == {Triple("schema.org", "owl:Ontology")}

DefaultConfig ==
    [manual |-> FALSE, always_base_canonical |-> TRUE, wikidata_labels |-> <<>>,
     tagger |-> <<>>]

\* no ParaphraseHITCreator and no Normalizer is constructed
NoCreator == [sentencesPerTask |-> 0, i |-> 0, buffer |-> <<>>]
NoNormalizer == [output |-> <<>>, dbIncIds |-> <<>>, includeOrder |-> FALSE]

NoCall == [fn |-> "", name |-> "", types |-> <<>>, comment |-> "", ptype |-> NoType]
NoReturn == [best |-> "", type |-> NoType, canonical |-> EmptyCanonical]

Init ==
    /\ pc = "read"
    /\ input = <<>>
    /\ keys = <<>> /\ th = <<>> /\ ekeys = <<>> /\ enums = <<>>
    /\ order = <<>>
    /\ hasGeo = FALSE
    /\ output = <<>>
    /\ err = ""
    /\ runs = 0
    /\ firstOutput = [output |-> <<>>, err |-> ""]
    /\ cfg = DefaultConfig
    /\ rq = NoCall
    /\ rs = NoReturn
    /\ creator = NoCreator /\ pushed = <<>> /\ normalizer = NoNormalizer

\* one iteration of the loop over the '@graph', on triple
ReadTriple(triple) ==
    /\ pc = "read"
    /\ Len(input) < MaxTriples
    /\ input' = Append(input, triple)
    /\ LET g == ProcessTriple(Graph, triple)
       IN  SetGraph(g) /\ pc' = IF g.err # "" THEN "aborted" ELSE "read"
    /\ UNCHANGED <<creator, pushed, normalizer>>
    /\ UNCHANGED <<order, hasGeo, output, runs, firstOutput, cfg, rq, rs>>

ReadClass == \E t \in ClassTriples : ReadTriple(t)
ReadProperty == \E t \in PropertyTriples : ReadTriple(t)
ReadEnumInstance == \E t \in EnumTriples : ReadTriple(t)
ReadSkipped == \E t \in SkippedTriples : ReadTriple(t)
ReadMalformed == \E t \in MalformedTriples : ReadTriple(t)

\* the loop that sets the flags of every type, once the '@graph' is read
ClassifyTypes ==
    /\ pc = "read"
    /\ LET g == Classify(Graph)
       IN  SetGraph(g) /\ pc' = IF g.err # "" THEN "aborted" ELSE "cycles"
    /\ UNCHANGED <<creator, pushed, normalizer>>
    /\ UNCHANGED <<input, order, hasGeo, output, runs, firstOutput, cfg, rq, rs>>

BreakCyclesStep ==
    /\ pc = "cycles"
    /\ SetGraph(BreakCycles(Graph))
    /\ pc' = "propagate"
    /\ UNCHANGED <<creator, pushed, normalizer>>
    /\ UNCHANGED <<input, order, hasGeo, output, runs, firstOutput, cfg, rq, rs>>

PropagateStep ==
    /\ pc = "propagate"
    /\ LET g == Propagate(Graph)
       IN  SetGraph(g) /\ pc' = IF g.err # "" THEN "aborted" ELSE "sort"
    /\ UNCHANGED <<creator, pushed, normalizer>>
    /\ UNCHANGED <<input, order, hasGeo, output, runs, firstOutput, cfg, rq, rs>>

SortStep ==
    /\ pc = "sort"
    /\ LET ord == Sort(Graph)
       IN  IF ord = <<"overflow">>
           THEN order' = <<>> /\ err' = StackOverflow /\ pc' = "aborted"
           ELSE order' = ord /\ err' = err /\ pc' = "emit"
    /\ UNCHANGED <<creator, pushed, normalizer>>
    /\ UNCHANGED <<input, keys, th, ekeys, enums, hasGeo, output, runs, firstOutput,
                   cfg, rq, rs>>

Emitted(e) ==
    /\ output' = e.queries
    /\ hasGeo' = e.hasGeo
    /\ err' = e.err
    /\ pc' = IF e.err # "" THEN "aborted" ELSE "done"

EmitStep ==
    /\ pc = "emit"
    /\ Emitted(Emit(Graph, order, hasGeo, cfg))
    /\ runs' = runs
    /\ UNCHANGED <<creator, pushed, normalizer>>
    /\ UNCHANGED <<input, keys, th, ekeys, enums, order, firstOutput, cfg, rq, rs>>

Finish(r) ==
    /\ SetGraph([r.graph EXCEPT !.err = r.err])
    /\ order' = r.order
    /\ output' = r.output
    /\ hasGeo' = r.hasGeo
    /\ pc' = IF r.err # "" THEN "aborted" ELSE "done"

\* run() called once more on the same instance, with the same '@graph'
RunAgain ==
    /\ pc \in {"done", "aborted"}
    /\ runs = 0
    /\ Finish(Run(input, hasGeo, cfg))
    /\ firstOutput' = [output |-> output, err |-> err]
    /\ runs' = 1
    /\ UNCHANGED <<creator, pushed, normalizer>>
    /\ UNCHANGED <<input, cfg, rq, rs>>

Next ==
    \/ ReadClass
    \/ ReadProperty
    \/ ReadEnumInstance
    \/ ReadSkipped
    \/ ReadMalformed
    \/ ClassifyTypes
    \/ BreakCyclesStep
    \/ PropagateStep
    \/ SortStep
    \/ EmitStep
    \/ RunAgain

Spec == Init /\ [][Next]_vars

(***************************************************************************)
(* Properties of the classified graph.                                     *)
(***************************************************************************)
Classified == pc \in {"sort", "emit", "done"}

RECURSIVE ListElement(_, _, _)
\* the type typeToThingTalk ends on when it starts on typename and unwraps item
\* lists; "" when it never ends
ListElement(g, typename, seen) ==
    IF typename \in BUILTIN_NAMES \/ ~Has(g, typename) THEN typename
    ELSE IF ~Def(g, typename).isItemList THEN typename
    ELSE IF typename \in seen THEN ""
    ELSE ListElement(g, Def(g, typename).itemType, seen \cup {typename})

\* whether typeToThingTalk(typename) calls makeCompoundType(typename)
Inlined(g, typename) ==
    /\ typename \notin BUILTIN_NAMES
    /\ Has(g, typename)
    /\ ~Def(g, typename).isItemList
    /\ ~(Def(g, typename).isEnum /\ Len(Def(g, typename).enum) > 0)
    /\ Def(g, typename).representAsStruct

\* whether getBestPropertyType(property) converts a type with typeToThingTalk
Converted(g, property) ==
    /\ property.name \notin BLACKLISTED_PROPERTIES
    /\ property.name \notin PROPERTY_TYPE_OVERRIDE_NAMES
    /\ BestCandidate(g, property.types).type \notin {"", "QuantitativeValue"}
    /\ BestCandidate(g, property.types).score >= 0

\* the struct types makeCompoundType(typename) inlines as the types of its fields
FieldStructs(g, typename) ==
    LET props == recursiveCollectProperties(g, typename, typename,
                     [props |-> <<>>, overflow |-> FALSE], {}).props
    IN  { ListElement(g, BestCandidate(g, props[k].types).type, {}) :
            k \in { j \in 1..Len(props) :
                      /\ Converted(g, props[j])
                      /\ Inlined(g, ListElement(g, BestCandidate(g, props[j].types).type, {})) } }

RECURSIVE StructsWithin(_, _, _)
\* the struct types reached from the types of frontier along field types
StructsWithin(g, frontier, reached) ==
    IF frontier \subseteq reached THEN reached
    ELSE StructsWithin(g,
            UNION { FieldStructs(g, t) : t \in frontier \ reached },
            reached \cup frontier)

\* the struct types inlined, directly or not, in the compound type of typename
StructsInlinedIn(g, typename) == StructsWithin(g, FieldStructs(g, typename), {})

\* C1: once the types are classified (cycles broken, non-struct status
\* propagated), no struct-representable type is inlined, directly or through
\* other struct types, in its own compound type: following the resolved types of
\* the collected fields (own and inherited) never leads back to the type.
C1_NoStructInlinesItself ==
    Classified =>
        \A k \in 1..Len(keys) :
            Inlined(Graph, keys[k]) => keys[k] \notin StructsInlinedIn(Graph, keys[k])

(***************************************************************************)
(* Properties of the emitted definitions.                                  *)
(***************************************************************************)
\* the position of the definition of typename in the output, 0 when it has none
Emitted_at(typename) ==
    IF \E i \in 1..Len(output) : output[i].name = Renamed(typename)
    THEN CHOOSE i \in 1..Len(output) : output[i].name = Renamed(typename)
    ELSE 0

\* C2: in the emitted sequence every emitted parent of an emitted type comes
\* before the type.
C2_ParentsEmittedFirst ==
    pc = "done" =>
        \A k \in 1..Len(keys) : \A j \in 1..Len(th[k].extends) :
            (Emitted_at(keys[k]) > 0 /\ Emitted_at(th[k].extends[j]) > 0
                /\ th[k].extends[j] # keys[k])
                => Emitted_at(th[k].extends[j]) < Emitted_at(keys[k])

\* a type declared before its parent, both emitted
C2_Witness ==
    /\ pc = "done"
    /\ \E k \in 1..Len(keys) : \E j \in 1..Len(th[k].extends) :
          /\ Emitted_at(keys[k]) > 0
          /\ Emitted_at(th[k].extends[j]) > 0
          /\ Has(Graph, th[k].extends[j])
          /\ k < KeyIndex(keys, th[k].extends[j])

\* C5: run() called a second time on the same instance, with the same '@graph'
\* and configuration, ends as the first call did: the same definitions in the
\* same order with the same fields, types and canonical forms, or the same error.
C5_SecondRunSameOutput ==
    runs = 1 => (output = firstOutput.output /\ err = firstOutput.err)

\* a second run that started with _hasGeo set by the first and emitted a
\* compound type whose field is dropped because of geo
C5_Witness ==
    /\ runs = 1
    /\ pc = "done"
    /\ hasGeo
    /\ \E i \in 1..Len(output) : \E a \in 1..Len(output[i].args) :
          /\ output[i].args[a].type.kind = "Compound"
          /\ \E f \in 1..Len(output[i].args[a].type.fields) :
                output[i].args[a].type.fields[f].drop

\* C6: every emitted definition is that of a type that is no action, no
\* enumeration, not struct-representable and no item list.
C6_OnlyEntityTypesEmitted ==
    pc = "done" =>
        \A i \in 1..Len(output) :
            \E k \in 1..Len(keys) :
                /\ output[i].name = Renamed(keys[k])
                /\ ~th[k].isAction
                /\ ~th[k].isEnum
                /\ ~th[k].representAsStruct
                /\ ~th[k].isItemList
                /\ keys[k] # "ItemList"

\* definitions are emitted while the graph holds an item list and a struct type
C6_Witness ==
    /\ pc = "done"
    /\ output # <<>>
    /\ \E k \in 1..Len(keys) : th[k].isItemList
    /\ \E k \in 1..Len(keys) : th[k].representAsStruct

RECURSIVE AncestorsWithin(_, _, _)
\* the types of the graph reached from frontier along extends
AncestorsWithin(g, frontier, reached) ==
    IF frontier \subseteq reached THEN reached
    ELSE AncestorsWithin(g,
            UNION { { e \in SeqToSet(Def(g, t).extends) : Has(g, e) } :
                      t \in frontier \ reached },
            reached \cup frontier)

Ancestors(g, typename) ==
    AncestorsWithin(g, { e \in SeqToSet(Def(g, typename).extends) : Has(g, e) }, {})

\* C7: once the types are classified, every ancestor (in the graph) of a type
\* that is not struct-representable is not struct-representable either.
C7_AncestorsOfNonStructAreNonStruct ==
    Classified =>
        \A k \in 1..Len(keys) :
            ~th[k].representAsStruct =>
                \A a \in Ancestors(Graph, keys[k]) : ~Def(Graph, a).representAsStruct

\* a type of a struct lineage was made non-struct, and so was an ancestor of it
\* in the same lineage
C7_Witness ==
    /\ Classified
    /\ \E k \in 1..Len(keys) :
          /\ th[k].isStructSubType
          /\ ~th[k].representAsStruct
          /\ \E a \in Ancestors(Graph, keys[k]) :
                Def(Graph, a).isStructSubType /\ ~Def(Graph, a).representAsStruct

RECURSIVE FieldNames(_)
RECURSIVE FieldNamesOf(_, _)
\* the names of the fields of a type, at every depth
FieldNames(type) == FieldNamesOf(type.fields, 1)
FieldNamesOf(fields, i) ==
    IF i > Len(fields) THEN {}
    ELSE {fields[i].name} \cup FieldNames(fields[i].type) \cup FieldNamesOf(fields, i + 1)

\* the candidate types and comments of the property statements
PropertyShapes ==
    { [types |-> MapGetId(t.rangeIncludes), comment |-> t.comment] : t \in PropertyTriples }

\* C8: a property on the black list resolves to (none, none) whatever its
\* candidate types; the graph holds no such property, and none is an argument
\* of an emitted definition or a field of a compound type.
C8_BlacklistedPropertyNeverResolved ==
    /\ \A k \in 1..Len(keys) : \A j \in 1..Len(th[k].properties) :
          th[k].properties[j].name \notin BLACKLISTED_PROPERTIES
    /\ \A i \in 1..Len(output) : \A a \in 1..Len(output[i].args) :
          /\ output[i].args[a].name \notin BLACKLISTED_PROPERTIES
          /\ FieldNames(output[i].args[a].type) \cap BLACKLISTED_PROPERTIES = {}
    /\ Classified =>
          \A name \in BLACKLISTED_PROPERTIES : \A shape \in PropertyShapes :
              getBestPropertyType(name,
                  [name |-> name, types |-> shape.types, comment |-> shape.comment],
                  Graph, hasGeo, cfg, {}) = NoResult

\* a black-listed property was declared for a type that is emitted with the
\* properties it has left
C8_Witness ==
    /\ pc = "done"
    /\ \E i \in 1..Len(input) :
          /\ getId(input[i].id) \in BLACKLISTED_PROPERTIES
          /\ \E q \in 1..Len(output) :
                /\ S(output[q].name) \in SeqToSet(input[i].domainIncludes)
                /\ Len(output[q].args) > 2

(***************************************************************************)
(* getBestPropertyType and makeCompoundType called on a hierarchy as run() *)
(* has it when it emits the types.                                         *)
(***************************************************************************)
\* the bound on the number of candidate types of a property
MaxCandidates == 2

\* a '@graph' with an entity type, a struct type, enumerations with and
\* without members, and item lists of a struct and of an enumeration
HierarchyTriples ==
    <<ClassTriple("Thing", <<>>),
      ClassTriple("Place", <<S("Thing")>>),
      PropertyTriple("sku", <<S("Offer")>>, <<S("Text")>>, "The stock keeping unit."),
      ClassTriple("OfferCatalog", <<S("ItemList")>>),
      ClassTriple("DayOfWeek", <<S("Enumeration")>>),
      Triple("Monday", S("DayOfWeek")),
      Triple("Friday", S("DayOfWeek")),
      ClassTriple("DayOfWeekList", <<S("ItemList")>>),
      ClassTriple("GenderType", <<S("Enumeration")>>),
      ClassTriple("OfferCatalogList", <<S("ItemList")>>)>>

\* a '@graph' of struct types: Offer and Rating with subclasses, one of them
\* with a parent outside the struct lineages and a property its parent has
\* too, one whose only property has no known type, and a type of
\* STRUCT_INCLUDE_THING_PROPERTIES
StructTriples ==
    <<ClassTriple("Thing", <<>>),
      PropertyTriple("identifier", <<S("Thing")>>, <<S("Text")>>, "The identifier."),
      ClassTriple("Place", <<S("Thing")>>),
      PropertyTriple("branchCode", <<S("Place")>>, <<S("Text")>>, "The branch code."),
      ClassTriple("Offer", <<S("Thing")>>),
      PropertyTriple("sku", <<S("Offer")>>, <<S("Text")>>, "The stock keeping unit."),
      ClassTriple("AggregateOffer", <<S("Offer"), S("Place")>>),
      PropertyTriple("sku", <<S("AggregateOffer")>>, <<S("Number")>>,
                     "A stock keeping unit."),
      ClassTriple("Rating", <<S("Thing")>>),
      PropertyTriple("author", <<S("Rating")>>, <<S("Person")>>, "The author."),
      ClassTriple("AggregateRating", <<S("Rating")>>),
      ClassTriple("StructuredValue", <<S("Thing")>>),
      ClassTriple("LocationFeatureSpecification", <<S("StructuredValue")>>)>>

\* the '@graph's the hierarchy is built from: the second declares a class whose
\* name is the key read by "typeHierarchy.isItemList"
HierarchyInputs ==
    {HierarchyTriples, HierarchyTriples \o <<ClassTriple("isItemList", <<>>)>>,
     StructTriples}

\* typeHierarchy after the loops that classify, break cycles and propagate
Hierarchy(triples) ==
    Propagate(BreakCycles(Classify(BuildFrom(EmptyGraph, triples, 1))))

CandidateTypes ==
    {"Text", "Boolean", "Number", "Place", "Offer", "OfferCatalog", "DayOfWeek",
     "DayOfWeekList", "GenderType", "Person", "OfferCatalogList",
     "QuantitativeValue"}

CandidateLists == UNION { [1..n -> CandidateTypes] : n \in 0..MaxCandidates }

PropertyNames ==
    {"offers", "worksFor", "sameAs", "telephone", "openingDay", "duration",
     "floorLevel", "orderQuantity", "numberOfRooms"}

PropertyComments == {"An offer to provide this item.", "The opening day."}

InitResolve ==
    /\ pc = "resolve"
    /\ \E triples \in HierarchyInputs :
          /\ input = triples
          /\ keys = Hierarchy(triples).keys
          /\ th = Hierarchy(triples).th
          /\ ekeys = Hierarchy(triples).ekeys
          /\ enums = Hierarchy(triples).enums
          /\ err = Hierarchy(triples).err
    /\ order = <<>>
    /\ hasGeo = FALSE
    /\ output = <<>>
    /\ runs = 0
    /\ firstOutput = [output |-> <<>>, err |-> ""]
    /\ cfg = DefaultConfig
    /\ rq = NoCall
    /\ rs = NoReturn
    /\ creator = NoCreator /\ pushed = <<>> /\ normalizer = NoNormalizer

Returned(r) == rs' = [best |-> r.best, type |-> r.type, canonical |-> EmptyCanonical]

\* getBestPropertyType(propname, {types, comment}, typeHierarchy)
CallGetBestPropertyType ==
    /\ pc = "resolve"
    /\ \E propname \in PropertyNames, types \in CandidateLists, comment \in PropertyComments :
          /\ rq' = [fn |-> "getBestPropertyType", name |-> propname, types |-> types,
                    comment |-> comment, ptype |-> NoType]
          /\ Returned(getBestPropertyType(propname,
                    [name |-> propname, types |-> types, comment |-> comment],
                    Graph, hasGeo, cfg, {}))
    /\ pc' = "returned"
    /\ UNCHANGED <<creator, pushed, normalizer>>
    /\ UNCHANGED <<input, keys, th, ekeys, enums, order, hasGeo, output, err, runs,
                   firstOutput, cfg>>

\* makeCompoundType(typename, typeHierarchy[typename], typeHierarchy)
CallMakeCompoundType ==
    /\ pc = "resolve"
    /\ \E k \in 1..Len(keys) :
          /\ th[k].representAsStruct
          /\ rq' = [fn |-> "makeCompoundType", name |-> keys[k], types |-> <<>>,
                    comment |-> "", ptype |-> NoType]
          /\ Returned([best |-> keys[k],
                       type |-> makeCompoundType(keys[k], Graph, hasGeo, cfg, {})])
    /\ pc' = "returned"
    /\ UNCHANGED <<creator, pushed, normalizer>>
    /\ UNCHANGED <<input, keys, th, ekeys, enums, order, hasGeo, output, err, runs,
                   firstOutput, cfg>>

NextResolve == CallGetBestPropertyType \/ CallMakeCompoundType

SpecResolve == InitResolve /\ [][NextResolve]_vars

\* C3: getBestPropertyType never returns an array type for a property of
\* PROPERTY_FORCE_NOT_ARRAY, whatever its comment and its candidate types.
C3_ForcedNotArrayNeverArray ==
    (rq.fn = "getBestPropertyType" /\ rq.name \in PROPERTY_FORCE_NOT_ARRAY)
        => ~IsArrayType(rs.type)

\* the score the candidate has by the table: enumeration 5, builtin scalar 4,
\* struct-representable class 3, explicit Text 2, other known class 1, unknown -1
TableScore(g, type) ==
    IF Has(g, type) /\ Def(g, type).isEnum THEN 5
    ELSE IF type = "Text" THEN 2
    ELSE IF type \in BUILTIN_NAMES THEN 4
    ELSE IF ~Has(g, type) THEN -1
    ELSE IF Def(g, type).representAsStruct THEN 3
    ELSE 1

\* C9: the candidate getBestPropertyType chooses has the maximum score of the
\* table over the candidates of the property; when the maximum is negative or
\* there is no candidate the property resolves to (none, none).
C9_ChosenCandidateHasMaximumScore ==
    (rq.fn = "getBestPropertyType" /\ rq.name \notin BLACKLISTED_PROPERTIES
        /\ ~IsError(rs.type))
        => IF \A i \in 1..Len(rq.types) : TableScore(Graph, rq.types[i]) < 0
           THEN rs.best = "" /\ IsNone(rs.type)
           ELSE /\ InSeq(rs.best, rq.types)
                /\ \A i \in 1..Len(rq.types) :
                      TableScore(Graph, rq.types[i]) <= TableScore(Graph, rs.best)

\* C10: getBestPropertyType never returns an array whose element type is
\* Boolean or an enumeration.
C10_NoArrayOfBooleanOrEnum ==
    rq.fn = "getBestPropertyType"
        => ~(rs.type.depth = 1 /\ rs.type.kind \in {"Boolean", "Enum"})

(***************************************************************************)
(* makeArgCanonical called on a property name and its type.                *)
(***************************************************************************)
CanonicalNames ==
    {"name", "geo", "worksFor", "telephone", "openingDay", "isAvailable",
     "hasMenu", "fatContent", "gtin13", "isPartOf"}

CanonicalTypes ==
    {Scalar("String"), Scalar("Boolean"), Measure("kg"), ArrayOf(Entity("org.schema:Thing"))}

\* the labels of --wikidata-path: none, or labels for some of the properties
LabelTables ==
    {<<>>,
     <<[name |-> "worksFor", labels |-> <<"employer", "works for">>],
       [name |-> "name", labels |-> <<"title">>],
       [name |-> "openingDay", labels |-> <<"open on", "opening day">>],
       [name |-> "hasMenu", labels |-> <<"has menu", "menu">>],
       [name |-> "gtin13", labels |-> <<"GTIN", "gtin">>]>>}

\* the tags of the tagger for the phrases it is given: those of its lexicon,
\* or tags of another part of speech
TaggerTables ==
    {<<>>,
     <<[tokens |-> <<"works", "for">>, tags |-> <<"NN", "NN">>],
       [tokens |-> <<"opening", "day">>, tags |-> <<"VBG", "NN">>],
       [tokens |-> <<"name">>, tags |-> <<"VBZ">>]>>,
     <<[tokens |-> <<"works", "for">>, tags |-> <<"VBD", "NN">>],
       [tokens |-> <<"name">>, tags |-> <<"VB">>],
       [tokens |-> <<"available">>, tags |-> <<"VB">>]>>}

InitCanonical ==
    /\ pc = "canonical"
    /\ input = <<>>
    /\ keys = <<>> /\ th = <<>> /\ ekeys = <<>> /\ enums = <<>>
    /\ order = <<>>
    /\ hasGeo = FALSE
    /\ output = <<>>
    /\ err = ""
    /\ runs = 0
    /\ firstOutput = [output |-> <<>>, err |-> ""]
    /\ cfg \in [manual : BOOLEAN, always_base_canonical : BOOLEAN,
                 wikidata_labels : LabelTables, tagger : TaggerTables]
    /\ rq = NoCall
    /\ rs = NoReturn
    /\ creator = NoCreator /\ pushed = <<>> /\ normalizer = NoNormalizer

\* makeArgCanonical(name, ptype)
CallMakeArgCanonical ==
    /\ pc = "canonical"
    /\ \E name \in CanonicalNames, ptype \in CanonicalTypes :
          /\ rq' = [fn |-> "makeArgCanonical", name |-> name, types |-> <<>>,
                    comment |-> "", ptype |-> ptype]
          /\ rs' = [best |-> "", type |-> NoType,
                    canonical |-> makeArgCanonical(name, ptype, cfg)]
    /\ pc' = "returned"
    /\ UNCHANGED <<creator, pushed, normalizer>>
    /\ UNCHANGED <<input, keys, th, ekeys, enums, order, hasGeo, output, err, runs,
                   firstOutput, cfg>>

NextCanonical == CallMakeArgCanonical

SpecCanonical == InitCanonical /\ [][NextCanonical]_vars

\* C4: for a name of PROPERTY_CANONICAL_OVERRIDE, or of
\* MANUAL_PROPERTY_CANONICAL_OVERRIDE when manual is on, makeArgCanonical
\* returns the record of the table, whatever the type, the labels, the tags
\* and always_base_canonical.
C4_OverrideReturnedAsIs ==
    rq.fn = "makeArgCanonical" =>
        /\ rq.name \in PROPERTY_CANONICAL_OVERRIDE_NAMES
              => rs.canonical = PROPERTY_CANONICAL_OVERRIDE(rq.name)
        /\ (cfg.manual /\ rq.name \in MANUAL_PROPERTY_CANONICAL_OVERRIDE_NAMES
                /\ rq.name \notin PROPERTY_CANONICAL_OVERRIDE_NAMES)
              => rs.canonical = MANUAL_PROPERTY_CANONICAL_OVERRIDE(rq.name)

\* a name of the manual table resolved in manual mode while labels and other
\* tags exist for it and its type is an array
C4_Witness ==
    /\ rq.fn = "makeArgCanonical"
    /\ cfg.manual
    /\ rq.name \in MANUAL_PROPERTY_CANONICAL_OVERRIDE_NAMES
    /\ HasLabels(cfg, rq.name)
    /\ cfg.tagger # <<>>
    /\ ~cfg.always_base_canonical
    /\ IsArrayType(rq.ptype)
    /\ rs.canonical = MANUAL_PROPERTY_CANONICAL_OVERRIDE(rq.name)

(***************************************************************************)
(* More properties of getBestPropertyType and makeCompoundType.            *)
(***************************************************************************)
\* C11: for a property of PROPERTY_TYPE_OVERRIDE that is not black-listed and
\* has a candidate of score 0 or more, getBestPropertyType returns the type of
\* the table as it is, with the candidate chosen by the scoring loop.
C11_TypeOverrideReturnedAsIs ==
    (rq.fn = "getBestPropertyType"
        /\ rq.name \in PROPERTY_TYPE_OVERRIDE_NAMES \ BLACKLISTED_PROPERTIES
        /\ \E i \in 1..Len(rq.types) : Score(Graph, rq.types[i]) >= 0)
        => /\ rs.type = PROPERTY_TYPE_OVERRIDE(rq.name)
           /\ \E i \in 1..Len(rq.types) :
                 /\ rs.best = rq.types[i]
                 /\ \A j \in 1..Len(rq.types) : Score(Graph, rq.types[j]) <= Score(Graph, rq.types[i])
                 /\ \A j \in 1..(i - 1) : Score(Graph, rq.types[j]) < Score(Graph, rq.types[i])

\* an overridden property whose comment starts with "An", with an item list
\* among its candidates, resolved to the type of the table
C11_Witness ==
    /\ rq.fn = "getBestPropertyType"
    /\ rq.name \in PROPERTY_TYPE_OVERRIDE_NAMES
    /\ StartsWithIndefiniteArticle(rq.comment)
    /\ \E i \in 1..Len(rq.types) : Has(Graph, rq.types[i]) /\ Def(Graph, rq.types[i]).isItemList
    /\ rs.best = "Offer"
    /\ rs.type = PROPERTY_TYPE_OVERRIDE(rq.name)

\* allproperties of makeCompoundType(typename)
Collected(g, typename) ==
    recursiveCollectProperties(g, typename, typename,
                               [props |-> <<>>, overflow |-> FALSE], {}).props

\* C12: makeCompoundType of a struct type none of whose collected properties
\* resolves to a type throws "Struct type <the type> has no fields" and returns
\* no compound type.
C12_NoFieldsIsAnError ==
    (rq.fn = "makeCompoundType"
        /\ \A i \in 1..Len(Collected(Graph, rq.name)) :
              IsNone(getBestPropertyType(Collected(Graph, rq.name)[i].name,
                        Collected(Graph, rq.name)[i], Graph, hasGeo, cfg,
                        {<<"struct", rq.name>>}).type))
        => rs.type = Thrown("Struct type " \o rq.name \o " has no fields")

\* makeCompoundType of a type that collects a property, of unknown type, has
\* thrown
C12_Witness ==
    /\ rq.fn = "makeCompoundType"
    /\ Collected(Graph, rq.name) # <<>>
    /\ IsError(rs.type)
    /\ rs.type.arg = "Struct type " \o rq.name \o " has no fields"

(***************************************************************************)
(* run() from the end of the loop over a '@graph' of struct types whose    *)
(* properties refer to one another.                                        *)
(***************************************************************************)
\* the bound on the number of triples of such a '@graph'
MaxStatements == 3

CycleTriples ==
    {PropertyTriple("reviewRating", <<S("Offer")>>, <<S("Rating")>>,
                    "The rating of the offer."),
     PropertyTriple("ratedOffer", <<S("Rating")>>, <<S("Offer")>>,
                    "The item that is rated."),
     PropertyTriple("includesOffer", <<S("Offer")>>, <<S("Number"), S("Offer")>>,
                    "The number of additional offers."),
     ClassTriple("AggregateOffer", <<S("Offer")>>),
     PropertyTriple("relatedOffer", <<S("AggregateOffer")>>, <<S("AggregateOffer")>>,
                    "An offer that is part of this offer."),
     PropertyTriple("offers", <<S("Place")>>, <<S("Offer")>>,
                    "An offer to provide this item."),
     PropertyTriple("sku", <<S("Offer"), S("Rating")>>, <<S("Text")>>,
                    "The stock keeping unit."),
     ClassTriple("OfferCatalog", <<S("ItemList")>>),
     ClassTriple("HowToStep", <<S("ItemList")>>)}

CycleInputs == UNION { [1..n -> CycleTriples] : n \in 0..MaxStatements }

InitCycles ==
    /\ pc = "read"
    /\ \E triples \in CycleInputs :
          /\ input = triples
          /\ keys = BuildFrom(EmptyGraph, triples, 1).keys
          /\ th = BuildFrom(EmptyGraph, triples, 1).th
          /\ ekeys = BuildFrom(EmptyGraph, triples, 1).ekeys
          /\ enums = BuildFrom(EmptyGraph, triples, 1).enums
          /\ err = BuildFrom(EmptyGraph, triples, 1).err
    /\ order = <<>>
    /\ hasGeo = FALSE
    /\ output = <<>>
    /\ runs = 0
    /\ firstOutput = [output |-> <<>>, err |-> ""]
    /\ cfg = DefaultConfig
    /\ rq = NoCall
    /\ rs = NoReturn
    /\ creator = NoCreator /\ pushed = <<>> /\ normalizer = NoNormalizer

NextCycles ==
    \/ ClassifyTypes
    \/ BreakCyclesStep
    \/ PropagateStep
    \/ SortStep
    \/ EmitStep
    \/ RunAgain

SpecCycles == InitCycles /\ [][NextCycles]_vars

\* the loop that breaks the cycles has just ended
CyclesBroken == pc = "propagate"

\* the candidate types of the properties of typename that lie in a struct lineage
LineageCandidates(g, typename) ==
    { t \in UNION { SeqToSet(Def(g, typename).properties[i].types) :
                       i \in 1..Len(Def(g, typename).properties) } :
        Has(g, t) /\ Def(g, t).isStructSubType }

\* a and b are non-enum types of struct lineages, neither an ancestor of the
\* other, a has a property of type b and b one of type a, and they have no
\* property of another type of a struct lineage
MutualPair(g, a, b) ==
    /\ a # b
    /\ Def(g, a).isStructSubType /\ ~Def(g, a).isEnum
    /\ Def(g, b).isStructSubType /\ ~Def(g, b).isEnum
    /\ a \notin Ancestors(g, b) /\ b \notin Ancestors(g, a)
    /\ LineageCandidates(g, a) = {b}
    /\ LineageCandidates(g, b) = {a}

\* the properties of typename whose only candidate type is type resolve to an
\* entity reference to it
ResolvesToEntity(g, typename, type) ==
    \A i \in 1..Len(Def(g, typename).properties) :
        Def(g, typename).properties[i].types = <<type>>
            => getBestPropertyType(Def(g, typename).properties[i].name,
                                   Def(g, typename).properties[i], g, hasGeo, cfg, {}).type
                 = Entity(Prefix \o type)

\* C13 (as the program does it): of two such types the loop makes the one
\* visited first (the earlier in insertion order) non-struct; the one visited
\* later remains struct-representable and its properties of the type of the
\* first resolve to an entity reference.
C13_EarlierOfMutualPairDemoted ==
    CyclesBroken =>
        \A i, j \in 1..Len(keys) :
            (i < j /\ MutualPair(Graph, keys[i], keys[j]))
                => /\ ~th[i].representAsStruct
                   /\ th[j].representAsStruct
                   /\ ResolvesToEntity(Graph, keys[j], keys[i])

\* C13 (as stated): of two such types the loop makes the one visited later
\* non-struct and the one visited first remains struct-representable, its
\* properties of the type of the other resolving to an entity reference.
C13_LaterOfMutualPairDemoted ==
    CyclesBroken =>
        \A i, j \in 1..Len(keys) :
            (i < j /\ MutualPair(Graph, keys[i], keys[j]))
                => /\ th[i].representAsStruct
                   /\ ~th[j].representAsStruct
                   /\ ResolvesToEntity(Graph, keys[i], keys[j])

\* the loop has ended on a graph that holds two such types
C13_Witness ==
    /\ CyclesBroken
    /\ \E i, j \in 1..Len(keys) : i < j /\ MutualPair(Graph, keys[i], keys[j])

\* typeHierarchy as the classification loop leaves it, before any cycle is broken
BeforeCycles == Classify(BuildFrom(EmptyGraph, input, 1))

\* the struct types that are the chosen (best-scoring) candidate of a property
\* of typename
ResolvedStructs(g, typename) ==
    { t \in { BestCandidate(g, Def(g, typename).properties[i].types).type :
                i \in { n \in 1..Len(Def(g, typename).properties) :
                          Def(g, typename).properties[n].name \notin BLACKLISTED_PROPERTIES } } :
        Has(g, t) /\ Def(g, t).representAsStruct }

RECURSIVE ResolvedWithin(_, _, _)
ResolvedWithin(g, frontier, reached) ==
    IF frontier \subseteq reached THEN reached
    ELSE ResolvedWithin(g,
            UNION { ResolvedStructs(g, t) : t \in frontier \ reached },
            reached \cup frontier)

\* the struct types typename reaches along the chosen candidates
ResolvedReach(g, typename) == ResolvedWithin(g, ResolvedStructs(g, typename), {})

\* C16: the loop that breaks the cycles makes a non-enum struct type non-struct
\* only if the type reaches itself along properties whose chosen candidate is
\* a struct type.
C16_DemotedOnlyOnResolvedCycle ==
    CyclesBroken =>
        \A k \in 1..Len(keys) :
            (Def(BeforeCycles, keys[k]).representAsStruct /\ ~th[k].isEnum
                /\ ~th[k].representAsStruct)
                => keys[k] \in ResolvedReach(BeforeCycles, keys[k])

(***************************************************************************)
(* Errors and termination of run().                                        *)
(***************************************************************************)
\* the '@type' of the triple is none of rdfs:Class, rdf:Property and a
\* schema.org type
Unrecognized(triple) ==
    /\ triple.type \notin {"rdfs:Class", "rdf:Property"}
    /\ ~TripleIsEnum(triple)

UnknownTypeError(triple) == "don't know how to handle a triple of type " \o triple.type

C15_RecursionsFinish == err # StackOverflow

(***************************************************************************)
(* More properties of makeArgCanonical.                                    *)
(***************************************************************************)
NoDuplicates(seq) == \A i, j \in 1..Len(seq) : seq[i] = seq[j] => i = j

\* C17: no list of the canonical makeArgCanonical returns (base, verb,
\* passive_verb, reverse_property, ...) holds the same form twice.
C17_NoDuplicateForms ==
    rq.fn = "makeArgCanonical" =>
        /\ NoDuplicates(rs.canonical.base)
        /\ NoDuplicates(rs.canonical.verb)
        /\ NoDuplicates(rs.canonical.passive_verb)
        /\ NoDuplicates(rs.canonical.adjective)
        /\ NoDuplicates(rs.canonical.property)
        /\ NoDuplicates(rs.canonical.reverse_property)

\* the name is in no table of overrides that applies
NotOverridden(name, c) ==
    /\ name \notin PROPERTY_CANONICAL_OVERRIDE_NAMES
    /\ ~(c.manual /\ name \in MANUAL_PROPERTY_CANONICAL_OVERRIDE_NAMES)

\* the candidates of the name: its labels, or the cleaned name
CandidatesOf(name, c) ==
    IF HasLabels(c, name) THEN LabelsOf(c, name) ELSE <<cleanName(name)>>

\* C18: for a name in no table of overrides, when the candidates add nothing to
\* the canonical, makeArgCanonical returns {base: [name]} if
\* always_base_canonical is set and the empty canonical if it is not.
C18_BaseFallback ==
    (rq.fn = "makeArgCanonical" /\ NotOverridden(rq.name, cfg)
        /\ addCanonicalAll(EmptyCanonical, Dedup(CandidatesOf(rq.name, cfg), {}),
                           rq.ptype, cfg) = EmptyCanonical)
        => rs.canonical = IF cfg.always_base_canonical
                          THEN [EmptyCanonical EXCEPT !.base = <<rq.name>>]
                          ELSE EmptyCanonical

\* a name none of whose candidates is made of letters only, resolved without
\* always_base_canonical to the empty canonical
C18_Witness ==
    /\ rq.fn = "makeArgCanonical"
    /\ NotOverridden(rq.name, cfg)
    /\ ~cfg.always_base_canonical
    /\ \A i \in 1..Len(CandidatesOf(rq.name, cfg)) :
          ~OnlyLettersAndSpaces(ToLowerCase(CandidatesOf(rq.name, cfg)[i]))
    /\ rs.canonical = EmptyCanonical

(***************************************************************************)
(* The properties makeCompoundType collects.                               *)
(***************************************************************************)
\* typename declares a property of this name
Declares(g, typename, name) ==
    \E i \in 1..Len(Def(g, typename).properties) : Def(g, typename).properties[i].name = name

Declared(g, typename, name) ==
    Def(g, typename).properties[CHOOSE i \in 1..Len(Def(g, typename).properties) :
                                    Def(g, typename).properties[i].name = name]

\* the properties of typename count for the compound type of start
Contributes(g, start, typename) ==
    Has(g, typename)
        /\ (start \in STRUCT_INCLUDE_THING_PROPERTIES \/ Def(g, typename).isStructSubType)

\* the parents of typename are looked at for the compound type of start
Ascends(g, start, typename) ==
    Contributes(g, start, typename)
        /\ (start \in STRUCT_INCLUDE_THING_PROPERTIES
                \/ ~InSeq(typename, STRUCTURED_HIERARCHIES))

RECURSIVE FirstDeclared(_, _, _, _)
RECURSIVE FirstDeclaredOver(_, _, _, _)
\* the definition of the property of this name in the first type that declares
\* it, going from typename to its parents in their order, most specific first:
\* <<definition>>, or <<>> when no type declares it
FirstDeclared(g, start, typename, name) ==
    IF ~Contributes(g, start, typename) THEN <<>>
    ELSE IF Declares(g, typename, name) THEN <<Declared(g, typename, name)>>
    ELSE IF Ascends(g, start, typename)
         THEN FirstDeclaredOver(g, start, Def(g, typename).extends, name)
         ELSE <<>>

FirstDeclaredOver(g, start, exts, name) ==
    IF exts = <<>> THEN <<>>
    ELSE IF FirstDeclared(g, start, Head(exts), name) # <<>>
         THEN FirstDeclared(g, start, Head(exts), name)
         ELSE FirstDeclaredOver(g, start, Tail(exts), name)

\* the field makeCompoundType(start) builds from the definition def
FieldOf(start, def) ==
    CompoundField(def.name,
        getBestPropertyType(def.name, def, Graph, hasGeo, cfg, {<<"struct", start>>}),
        hasGeo, cfg)

\* C19: every field of the compound type of a type is built from the
\* definition of the property in the first (most specific) type that declares
\* it, never from that of a type visited later, and no two fields have the
\* same name.
C19_FirstDeclarationWins ==
    (rq.fn = "makeCompoundType" /\ rs.type.kind = "Compound")
        => /\ \A i, j \in 1..Len(rs.type.fields) :
                 rs.type.fields[i].name = rs.type.fields[j].name => i = j
           /\ \A i \in 1..Len(rs.type.fields) :
                 /\ FirstDeclared(Graph, rq.name, rq.name, rs.type.fields[i].name) # <<>>
                 /\ rs.type.fields[i] =
                      FieldOf(rq.name,
                          FirstDeclared(Graph, rq.name, rq.name, rs.type.fields[i].name)[1])

\* the compound type of a type that declares a property its parent declares
\* with another type
C19_Witness ==
    /\ rq.fn = "makeCompoundType"
    /\ rs.type.kind = "Compound"
    /\ \E i \in 1..Len(rs.type.fields) :
          /\ Declares(Graph, rq.name, rs.type.fields[i].name)
          /\ \E a \in Ancestors(Graph, rq.name) :
                /\ Def(Graph, a).isStructSubType
                /\ Declares(Graph, a, rs.type.fields[i].name)
                /\ Declared(Graph, a, rs.type.fields[i].name).types
                     # Declared(Graph, rq.name, rs.type.fields[i].name).types

RECURSIVE LineageWithin(_, _, _)
\* the types of a struct lineage reached from frontier without going above a
\* type of STRUCTURED_HIERARCHIES
LineageWithin(g, frontier, reached) ==
    IF frontier \subseteq reached THEN reached
    ELSE LineageWithin(g,
            UNION { { e \in SeqToSet(Def(g, t).extends) :
                        Has(g, e) /\ Def(g, e).isStructSubType } :
                      t \in { n \in frontier \ reached : ~InSeq(n, STRUCTURED_HIERARCHIES) } },
            reached \cup frontier)

Lineage(g, typename) ==
    LineageWithin(g, { t \in {typename} : Has(g, t) /\ Def(g, t).isStructSubType }, {})

\* the names of the properties the types declare
NamesDeclared(g, types) ==
    UNION { { Def(g, t).properties[i].name : i \in 1..Len(Def(g, t).properties) } :
              t \in types }

\* the names of the properties of the types that resolve to a type
NamesResolved(g, start, types) ==
    { n \in NamesDeclared(g, types) :
        \E t \in types :
            Declares(g, t, n) /\ ~IsNone(FieldOf(start, Declared(g, t, n)).type) }

\* C20: the fields of the compound type of a type that is not of
\* STRUCT_INCLUDE_THING_PROPERTIES are properties of types of a struct lineage
\* at or below a type of STRUCTURED_HIERARCHIES; for a type of
\* STRUCT_INCLUDE_THING_PROPERTIES the properties of all its ancestors that
\* resolve to a type are fields.
C20_CollectionStaysInLineage ==
    (rq.fn = "makeCompoundType" /\ rs.type.kind = "Compound")
        => IF rq.name \notin STRUCT_INCLUDE_THING_PROPERTIES
           THEN FieldNames(rs.type) \subseteq NamesDeclared(Graph, Lineage(Graph, rq.name))
           ELSE { rs.type.fields[i].name : i \in 1..Len(rs.type.fields) }
                  = NamesResolved(Graph, rq.name, {rq.name} \cup Ancestors(Graph, rq.name))

\* the compound type of a type with a parent outside the struct lineages and
\* one above Offer, both with properties that resolve and are no fields
C20_Witness ==
    /\ rq.fn = "makeCompoundType"
    /\ rs.type.kind = "Compound"
    /\ rq.name \notin STRUCT_INCLUDE_THING_PROPERTIES
    /\ \E a \in Ancestors(Graph, rq.name) :
          ~Def(Graph, a).isStructSubType /\ a \in SeqToSet(Def(Graph, rq.name).extends)
             /\ NamesResolved(Graph, rq.name, {a}) # {}
             /\ NamesResolved(Graph, rq.name, {a}) \cap FieldNames(rs.type) = {}
    /\ \E r \in Ancestors(Graph, rq.name) :
          InSeq(r, STRUCTURED_HIERARCHIES)
             /\ NamesResolved(Graph, rq.name, Ancestors(Graph, r)) # {}
             /\ NamesResolved(Graph, rq.name, Ancestors(Graph, r)) \cap FieldNames(rs.type) = {}

(***************************************************************************)
(* The element type of an item list.                                       *)
(***************************************************************************)
MatchingSuffixes(typename) ==
    { k \in 1..Len(ITEM_SUFFIXES) : EndsWith(typename, ITEM_SUFFIXES[k]) }

\* typename without the first suffix of ITEM_SUFFIXES it ends with
Stripped(typename) ==
    LET k == CHOOSE k \in MatchingSuffixes(typename) :
                 \A n \in MatchingSuffixes(typename) : k <= n
    IN  SubSeq(typename, 1, Len(typename) - Len(ITEM_SUFFIXES[k]))

\* the element type falls back to Thing
FallsBack(typename) ==
    MatchingSuffixes(typename) = {} \/ ~Has(Graph, Stripped(typename))

ElementTypeIs(i) ==
    th[i].itemType = IF FallsBack(keys[i]) THEN "Thing" ELSE Stripped(keys[i])

\* C21: the element type of an item list is its name without the first
\* suffix of ITEM_SUFFIXES it ends with when that is a type of the hierarchy,
\* and Thing otherwise; getItemType writes an error exactly when the name ends
\* with no suffix of ITEM_SUFFIXES, and none when the name without the suffix
\* is unknown.
C21_ElementTypeOfItemList ==
    (pc # "read" /\ err = "")
        => \A i \in 1..Len(keys) :
              th[i].isItemList
                 => /\ ElementTypeIs(i)
                    /\ getItemTypeConsoleError(keys[i]) # <<>>
                          <=> MatchingSuffixes(keys[i]) = {}

\* C21 as stated: an error is written whenever the element type falls back to
\* Thing
C21_FallbackWritesError ==
    (pc # "read" /\ err = "")
        => \A i \in 1..Len(keys) :
              th[i].isItemList
                 => /\ ElementTypeIs(i)
                    /\ FallsBack(keys[i]) => getItemTypeConsoleError(keys[i]) # <<>>

\* a classified hierarchy with an item list whose name ends with a suffix and
\* is unknown without it, and one whose name ends with no suffix
C21_Witness ==
    /\ pc # "read" /\ err = ""
    /\ \E i, j \in 1..Len(keys) :
          /\ th[i].isItemList /\ th[j].isItemList
          /\ MatchingSuffixes(keys[i]) # {} /\ ~Has(Graph, Stripped(keys[i]))
          /\ th[i].itemType = "Thing"
          /\ MatchingSuffixes(keys[j]) = {}

\* a classified hierarchy with an item list whose element type is its name
\* without the suffix
ItemListOfKnownType ==
    /\ pc # "read" /\ err = ""
    /\ \E i \in 1..Len(keys) :
          th[i].isItemList /\ ~FallsBack(keys[i]) /\ th[i].itemType # "Thing"

(***************************************************************************)
(* A property whose best type is an item list.                             *)
(***************************************************************************)
\* getBestPropertyType returned a type for a best candidate that is an item list
BestIsItemList ==
    /\ rq.fn = "getBestPropertyType"
    /\ Has(Graph, rs.best) /\ Def(Graph, rs.best).isItemList
    /\ ~IsError(rs.type) /\ ~IsNone(rs.type)

\* the ThingTalk type of the element type of the item list typename
ElementType(typename) ==
    typeToThingTalk(Def(Graph, typename).itemType, Graph, hasGeo, cfg, {})

\* C22: when the best candidate of a property without a type override is an
\* item list, the type is one Type.Array around the type of the element type,
\* whatever isArray was; it is an array of arrays only when the element type
\* is an item list itself.
C22_ItemListWrappedOnce ==
    (BestIsItemList /\ rq.name \notin PROPERTY_TYPE_OVERRIDE_NAMES)
        => /\ rs.type = ArrayOf(ElementType(rs.best))
           /\ rs.type.depth > 1
                 => /\ Has(Graph, Def(Graph, rs.best).itemType)
                    /\ Def(Graph, Def(Graph, rs.best).itemType).isItemList

\* C22 as stated, for a property without a type override: the type is one
\* Type.Array around the type of the element type and never an array of arrays
C22_NeverArrayOfArrays ==
    (BestIsItemList /\ rq.name \notin PROPERTY_TYPE_OVERRIDE_NAMES)
        => rs.type = ArrayOf(ElementType(rs.best)) /\ rs.type.depth = 1

\* a property whose best candidate is an item list and for which isArray was
\* set before the scoring loop
C22_Witness ==
    /\ BestIsItemList
    /\ rq.name \notin PROPERTY_TYPE_OVERRIDE_NAMES
    /\ ArrayHeuristic(rq.name, [name |-> rq.name, types |-> rq.types, comment |-> rq.comment],
                      Graph)
    /\ rs.type.depth = 1

(***************************************************************************)
(* The rules of addCanonical, on a name whose only candidate is the        *)
(* cleaned name.                                                           *)
(***************************************************************************)
\* makeArgCanonical gave addCanonical the cleaned name, made of letters
OneCandidate ==
    /\ rq.fn = "makeArgCanonical"
    /\ NotOverridden(rq.name, cfg)
    /\ ~HasLabels(cfg, rq.name)
    /\ OnlyLettersAndSpaces(ToLowerCase(cleanName(rq.name)))

\* the candidate in lower case, in the plural for an array type
Phrase ==
    IF IsArrayType(rq.ptype) THEN pluralize(ToLowerCase(cleanName(rq.name)))
    ELSE ToLowerCase(cleanName(rq.name))

ContentRule == EndsWith(Phrase, " content") /\ IsMeasureType(rq.ptype)

IsRule == OneCandidate /\ StartsWith(Phrase, "is ") /\ ~ContentRule

GeneralRule ==
    OneCandidate /\ ~StartsWith(Phrase, "is ") /\ ~StartsWith(Phrase, "has ") /\ ~ContentRule

\* the phrase after "is "
AfterIs == SubSeq(Phrase, Len("is ") + 1, Len(Phrase))

TagsOf(phrase) == posTag(Split(phrase, " "), cfg)

\* the base of a name to which the candidates gave none
BaseFallback == IF cfg.always_base_canonical THEN <<rq.name>> ELSE <<>>

\* C23: a phrase that starts with "is " goes, without the "is ", to
\* reverse_property if its last word is tagged as a noun or it ends in " of",
\* otherwise to passive_verb if its first word is tagged VBN, JJ or JJR, and
\* nowhere otherwise; no other role receives it.  isAvailable with "available"
\* tagged JJ and a type that is no array gives passive_verb ["available"] and
\* no reverse_property.
C23_IsPhrase ==
    /\ IsRule
          => /\ rs.canonical =
                   [EmptyCanonical EXCEPT
                      !.base = BaseFallback,
                      !.reverse_property =
                          IF TagsOf(AfterIs)[Len(TagsOf(AfterIs))] \in NOUN_TAGS
                                \/ EndsWith(AfterIs, " of")
                          THEN <<AfterIs>> ELSE <<>>,
                      !.passive_verb =
                          IF ~(TagsOf(AfterIs)[Len(TagsOf(AfterIs))] \in NOUN_TAGS
                                  \/ EndsWith(AfterIs, " of"))
                                /\ TagsOf(AfterIs)[1] \in {"VBN", "JJ", "JJR"}
                          THEN <<AfterIs>> ELSE <<>>]
    /\ (OneCandidate /\ rq.name = "isAvailable" /\ ~IsArrayType(rq.ptype)
            /\ TagsOf("available") = <<"JJ">>)
          => /\ rs.canonical.passive_verb = <<"available">>
             /\ rs.canonical.reverse_property = <<>>

\* isAvailable of a Boolean type, with "available" tagged JJ
C23_Witness ==
    /\ IsRule
    /\ rq.name = "isAvailable" /\ rq.ptype = Scalar("Boolean")
    /\ TagsOf("available") = <<"JJ">>
    /\ rs.canonical.passive_verb = <<"available">>

\* a name with "is " that goes to reverse_property, and one that goes nowhere
IsPhraseOtherCases ==
    IsRule /\ (rs.canonical.reverse_property # <<>>
                  \/ rs.canonical = [EmptyCanonical EXCEPT !.base = BaseFallback])

\* the phrase has two words, the first tagged with one of tags and the second
\* as a noun
VerbAndNoun(tags) ==
    /\ Len(TagsOf(Phrase)) = 2
    /\ TagsOf(Phrase)[1] \in tags
    /\ TagsOf(Phrase)[2] \in NOUN_TAGS

\* the canonical of a phrase of two words made a verb with "#" between them
\* and a base of the second
TwoWordTemplate ==
    /\ Len(Split(Phrase, " ")) >= 2
    /\ rs.canonical =
          [EmptyCanonical EXCEPT !.verb = <<ReplaceFirst(Phrase, " ", " # ")>>,
                                 !.base = <<Split(Phrase, " ")[2]>>]

\* the canonical of a phrase made a verb as it is
WholeVerb == [EmptyCanonical EXCEPT !.verb = <<Phrase>>, !.base = BaseFallback]

\* C24: under the general rule, a phrase of two words whose first is tagged
\* VBP, VBZ or VBD and whose second is tagged as a noun gives the verb with
\* "#" between the words and the second word as base, and no other phrase
\* does; another phrase whose first word is tagged VBP, VBZ or VBD is a verb
\* as it is and nothing else; a phrase whose first word has any other tag
\* (VB, VBG and VBN among them) is no verb.
C24_VerbPhrase ==
    GeneralRule
        => /\ VerbAndNoun({"VBP", "VBZ", "VBD"}) <=> TwoWordTemplate
           /\ (TagsOf(Phrase)[1] \in {"VBP", "VBZ", "VBD"}
                  /\ ~VerbAndNoun({"VBP", "VBZ", "VBD"}))
                 => rs.canonical = WholeVerb
           /\ TagsOf(Phrase)[1] \notin {"VBP", "VBZ", "VBD"} => rs.canonical.verb = <<>>

\* C24 as stated: the verb with "#" is given exactly for a first word in the
\* present tense (VBP, VBZ) with a noun after it, and a phrase whose first
\* word has another tag of a verb, or that has another shape, is a verb as it
\* is
C24_PresentTenseTemplateElseWhole ==
    GeneralRule
        => /\ VerbAndNoun({"VBP", "VBZ"}) <=> TwoWordTemplate
           /\ (TagsOf(Phrase)[1] \in {"VB", "VBD", "VBG", "VBN", "VBP", "VBZ"}
                  /\ ~VerbAndNoun({"VBP", "VBZ"}))
                 => rs.canonical = WholeVerb

\* a phrase of two words with the first tagged VBD and the second a noun, made
\* a verb with "#"
C24_Witness ==
    /\ GeneralRule
    /\ VerbAndNoun({"VBD"})
    /\ TwoWordTemplate

\* the other cases of the general rule: a verb as it is, a first word tagged
\* VB, and a present tense before a noun
VerbPhraseOtherCases ==
    GeneralRule
        /\ \/ rs.canonical = WholeVerb
           \/ TagsOf(Phrase)[1] \in {"VB", "VBG", "VBN"}
           \/ VerbAndNoun({"VBP", "VBZ"})

(***************************************************************************)
(* A property whose best type is QuantitativeValue.                        *)
(***************************************************************************)
\* getBestPropertyType chose QuantitativeValue for a property without a type
\* override
BestIsQuantitativeValue ==
    /\ rq.fn = "getBestPropertyType"
    /\ rs.best = "QuantitativeValue"
    /\ rq.name \notin PROPERTY_TYPE_OVERRIDE_NAMES

NameHas(word) ==
    \E i \in 1..Len(rq.name) :
        i + Len(word) - 1 <= Len(rq.name)
           /\ ToLowerCase(SubSeq(rq.name, i, i + Len(word) - 1)) = word

\* C25: a property without a type override whose best candidate is
\* QuantitativeValue is a Number when its name has quantity, level or number in
\* it, in any case of the letters, a Measure of ms when it has duration, and
\* otherwise a Number, with an error written that the type is a guess.
C25_QuantitativeValueByName ==
    BestIsQuantitativeValue
        => IF NameHas("quantity") \/ NameHas("level") \/ NameHas("number")
           THEN rs.type = Scalar("Number") /\ QuantitativeValueConsoleError(rq.name) = <<>>
           ELSE IF NameHas("duration")
           THEN rs.type = Measure("ms") /\ QuantitativeValueConsoleError(rq.name) = <<>>
           ELSE rs.type = Scalar("Number") /\ QuantitativeValueConsoleError(rq.name) # <<>>

\* a QuantitativeValue made a Measure of ms by the name of the property
C25_Witness ==
    BestIsQuantitativeValue /\ NameHas("duration") /\ rs.type = Measure("ms")

\* the other cases: Number by the name, in capital letters too, and Number as
\* a guess
QuantitativeValueOtherCases ==
    BestIsQuantitativeValue
        /\ \/ NameHas("quantity") /\ Includes(rq.name, "Quantity")
           \/ QuantitativeValueConsoleError(rq.name) # <<>>

\* C28: a property without a type override whose best candidate is
\* QuantitativeValue is never an array, whatever its comment, its other
\* candidates and PROPERTY_FORCE_ARRAY.
C28_QuantitativeValueNeverArray ==
    BestIsQuantitativeValue => ~IsArrayType(rs.type)

\* a property of PROPERTY_FORCE_ARRAY whose comment starts with "An", with an
\* item list among its candidates, resolved to a QuantitativeValue
C28_Witness ==
    /\ BestIsQuantitativeValue
    /\ rq.name \in PROPERTY_FORCE_ARRAY
    /\ StartsWithIndefiniteArticle(rq.comment)
    /\ \E i \in 1..Len(rq.types) : Has(Graph, rq.types[i]) /\ Def(Graph, rq.types[i]).isItemList
    /\ rs.type = Scalar("Number")

(***************************************************************************)
(* The base form with always_base_canonical.                               *)
(***************************************************************************)
\* the canonical the candidates of the name make
FromCandidates ==
    addCanonicalAll(EmptyCanonical, Dedup(CandidatesOf(rq.name, cfg), {}), rq.ptype, cfg)

\* C26: with always_base_canonical, the canonical makeArgCanonical returns has
\* a base form, from a table of overrides or from the candidates; when the
\* candidates of a name in no table give no base form, the base is the name
\* alone and the other forms are those of the candidates.
C26_AlwaysABase ==
    (rq.fn = "makeArgCanonical" /\ cfg.always_base_canonical)
        => /\ rs.canonical.base # <<>>
           /\ (NotOverridden(rq.name, cfg) /\ FromCandidates.base = <<>>)
                 => rs.canonical = [FromCandidates EXCEPT !.base = <<rq.name>>]

\* a name whose candidates give a form that is no base, returned with the
\* name as base
C26_Witness ==
    /\ rq.fn = "makeArgCanonical"
    /\ cfg.always_base_canonical
    /\ NotOverridden(rq.name, cfg)
    /\ FromCandidates.base = <<>>
    /\ FromCandidates # EmptyCanonical
    /\ rs.canonical.base = <<rq.name>>

(***************************************************************************)
(* The hierarchy after the loop that breaks the cycles.                    *)
(***************************************************************************)
\* the candidate types of the properties typename declares that are among structs
StructCandidates(g, structs, typename) ==
    UNION { { t \in SeqToSet(Def(g, typename).properties[n].types) :
                t \notin BUILTIN_NAMES /\ t \in structs } :
              n \in 1..Len(Def(g, typename).properties) }

RECURSIVE CandidateReach(_, _, _, _)
CandidateReach(g, structs, frontier, reached) ==
    IF frontier \subseteq reached THEN reached
    ELSE CandidateReach(g, structs,
            UNION { StructCandidates(g, structs, t) : t \in frontier \ reached },
            reached \cup frontier)

\* typename reaches itself through candidates that are among structs
OnCycle(g, structs, typename) ==
    typename \in CandidateReach(g, structs, StructCandidates(g, structs, typename), {})

\* the types with representAsStruct now
StructsNow == { keys[k] : k \in { n \in 1..Len(keys) : th[n].representAsStruct } }

\* the types with representAsStruct when the loop came to the i-th type: the
\* types before it as the loop left them, the others as they were classified
StructsAt(i) ==
    { keys[k] : k \in { n \in 1..Len(keys) :
                          IF n < i THEN th[n].representAsStruct ELSE th[n].isStructSubType } }

\* C27: when the loop that breaks the cycles has ended, no type that is
\* representAsStruct and is no enumeration reaches itself through candidate types
\* of declared properties that are representAsStruct; and a type of a struct
\* lineage has lost representAsStruct exactly if it reached itself so when
\* the loop came to it, the types before it being as the loop left them.
C27_NoCycleAmongStructs ==
    CyclesBroken
        => \A i \in 1..Len(keys) :
              ~th[i].isEnum
                 => /\ th[i].representAsStruct => ~OnCycle(Graph, StructsNow, keys[i])
                    /\ th[i].isStructSubType
                          => (th[i].representAsStruct <=> ~OnCycle(Graph, StructsAt(i), keys[i]))

\* two types on a cycle through each other of which the loop made the first
\* non-struct and kept the second, the cycle being broken when it came to it
C27_Witness ==
    /\ CyclesBroken
    /\ \E i, j \in 1..Len(keys) :
          /\ i < j
          /\ th[i].isStructSubType /\ ~th[i].representAsStruct
          /\ th[j].isStructSubType /\ th[j].representAsStruct
          /\ keys[j] \in StructCandidates(Graph, StructsAt(i), keys[i])
          /\ keys[i] \in StructCandidates(Graph, StructsAt(i), keys[j])
          /\ ~OnCycle(Graph, StructsAt(j), keys[j])

(***************************************************************************)
(* ParaphraseHITCreator, the Transform stream that groups the rows of the  *)
(* input into the rows of the HITs.  A JavaScript object is the sequence   *)
(* of its keys and values in insertion order.                              *)
(***************************************************************************)
\* the bounds on the number of rows written and on sentencesPerTask
MaxRows == 5
MaxSentencesPerTask == 3

Rows ==
    {[id |-> "17", target_code |-> "now => @org.schema.Restaurant()", utterance |-> "find a restaurant"],
     [id |-> "42", target_code |-> "now => @org.schema.Hotel()", utterance |-> "find a hotel"]}

\* the constructor
ParaphraseHITCreator(sentencesPerTask) ==
    [sentencesPerTask |-> sentencesPerTask, i |-> 0, buffer |-> <<>>]

\* object[key] = value
SetKey(object, key, value) ==
    IF \E n \in 1..Len(object) : object[n].key = key
    THEN [n \in 1..Len(object) |->
            IF object[n].key = key THEN [key |-> key, value |-> value] ELSE object[n]]
    ELSE Append(object, [key |-> key, value |-> value])

\* _transform never setting _i back to 0
transformKeepingCount(c, row) ==
    LET i == c.i + 1
        buffer == SetKey(SetKey(SetKey(c.buffer,
                      "id" \o ToString(i), row.id),
                      "thingtalk" \o ToString(i), row.target_code),
                      "sentence" \o ToString(i), row.utterance)
    IN  IF i = c.sentencesPerTask
        THEN [creator |-> [c EXCEPT !.i = i, !.buffer = <<>>], push |-> <<buffer>>]
        ELSE [creator |-> [c EXCEPT !.i = i, !.buffer = buffer], push |-> <<>>]

\* _transform(row, encoding, callback): the creator after it, and what the
\* callback pushes
transform(c, row) ==
    LET i == c.i + 1
        buffer == SetKey(SetKey(SetKey(c.buffer,
                      "id" \o ToString(i), row.id),
                      "thingtalk" \o ToString(i), row.target_code),
                      "sentence" \o ToString(i), row.utterance)
    IN  IF i = c.sentencesPerTask
        THEN [creator |-> [c EXCEPT !.i = 0, !.buffer = <<>>], push |-> <<buffer>>]
        ELSE [creator |-> [c EXCEPT !.i = i, !.buffer = buffer], push |-> <<>>]

\* _flush(callback): what it pushes before the stream ends
flush(c) == <<>>

InitCreator ==
    /\ pc = "open"
    /\ input = <<>>
    /\ keys = <<>> /\ th = <<>> /\ ekeys = <<>> /\ enums = <<>>
    /\ order = <<>>
    /\ hasGeo = FALSE
    /\ output = <<>>
    /\ err = ""
    /\ runs = 0
    /\ firstOutput = [output |-> <<>>, err |-> ""]
    /\ cfg = DefaultConfig
    /\ rq = NoCall
    /\ rs = NoReturn
    /\ \E sentencesPerTask \in 1..MaxSentencesPerTask :
          creator = ParaphraseHITCreator(sentencesPerTask)
    /\ pushed = <<>>
    /\ normalizer = NoNormalizer

\* a row of the input is written to the stream
TransformRow ==
    /\ pc = "open"
    /\ Len(input) < MaxRows
    /\ \E row \in Rows :
          /\ input' = Append(input, row)
          /\ creator' = transform(creator, row).creator
          /\ pushed' = pushed \o transform(creator, row).push
    /\ pc' = pc
    /\ UNCHANGED <<keys, th, ekeys, enums, order, hasGeo, output, err, runs,
                   firstOutput, cfg, rq, rs, normalizer>>

\* the input ends
EndOfInput ==
    /\ pc = "open"
    /\ pushed' = pushed \o flush(creator)
    /\ pc' = "ended"
    /\ UNCHANGED <<input, keys, th, ekeys, enums, order, hasGeo, output, err, runs,
                   firstOutput, cfg, rq, rs, creator, normalizer>>

NextCreator == TransformRow \/ EndOfInput

SpecCreator == InitCreator /\ [][NextCreator]_vars

\* the object with the rows from first on of the input under the keys id1,
\* thingtalk1, sentence1, id2, ... up to count
Batch(first, count) ==
    [n \in 1..(3 * count) |->
        CASE (n - 1) % 3 = 0 ->
                [key |-> "id" \o ToString((n - 1) \div 3 + 1),
                 value |-> input[first + (n - 1) \div 3].id]
          [] (n - 1) % 3 = 1 ->
                [key |-> "thingtalk" \o ToString((n - 1) \div 3 + 1),
                 value |-> input[first + (n - 1) \div 3].target_code]
          [] OTHER ->
                [key |-> "sentence" \o ToString((n - 1) \div 3 + 1),
                 value |-> input[first + (n - 1) \div 3].utterance]]

\* C29: after n rows, a ParaphraseHITCreator with sentencesPerTask = k >= 1
\* has pushed n div k objects, the j-th with the rows (j-1)*k+1 .. j*k of the
\* input in order under the keys id1..idk, thingtalk1..k, sentence1..k; _i
\* and _buffer hold the n mod k rows after them, nothing after an object is
\* pushed; and the end of the input pushes nothing.
C29_BatchesOfSentencesPerTask ==
    (pc \in {"open", "ended"} /\ creator.sentencesPerTask >= 1)
        => /\ Len(pushed) = Len(input) \div creator.sentencesPerTask
           /\ \A j \in 1..Len(pushed) :
                 pushed[j] = Batch((j - 1) * creator.sentencesPerTask + 1,
                                   creator.sentencesPerTask)
           /\ creator.i = Len(input) % creator.sentencesPerTask
           /\ creator.buffer = Batch(Len(pushed) * creator.sentencesPerTask + 1, creator.i)

\* the input has ended after two objects were pushed and a row that is in
\* none of them
C29_Witness ==
    /\ pc = "ended"
    /\ creator.sentencesPerTask >= 2
    /\ Len(pushed) = 2
    /\ creator.i > 0
    /\ pushed[1] # pushed[2]

(***************************************************************************)
(* Normalizer._processResult, called by the first loop of process() for    *)
(* one function after another.  The types have one field, name, which is   *)
(* no array; a value is a string, or a number as the JSON file may hold.   *)
(***************************************************************************)
\* the bound on the number of results processed
MaxCalls == 3

FunctionNames == {"Restaurants_FindRestaurants", "Hotels_SearchHotel"}

String(text) == [typeof |-> "string", text |-> text]
Number(text) == [typeof |-> "number", text |-> text]
Null == [typeof |-> "object", text |-> "null"]

ServiceResults ==
    {[name |-> String("Nobu")], [name |-> String("Alinea")], [name |-> Number("4")]}

\* frame.service_call.parameters of the frame of the result
SortingKeys == {"{\"city\":\"Palo Alto\"}", "{\"city\":\"San Jose\"}"}

\* JSON.stringify of a result
Stringify(obj) ==
    "{\"name\":"
        \o (IF obj.name.typeof = "string" THEN "\"" \o obj.name.text \o "\""
            ELSE obj.name.text)
        \o "}"

\* hash(obj): the SHA-1 digest of JSON.stringify(obj), taken to be different
\* for different strings
hash(obj) == "sha1:" \o Stringify(obj)

\* the Normalizer after the constructor and init(args)
Normalizer(include_order) ==
    [output |-> <<>>, dbIncIds |-> <<>>, includeOrder |-> include_order]

\* object[key] = value on an object with the names of functions as keys
Put(object, key, value) ==
    [k \in DOMAIN object \cup {key} |-> IF k = key THEN value ELSE object[k]]

\* _processField on a field that is no array, of a type that is a string and
\* none of those with a conversion: the value, or the error thrown
processField(value) ==
    IF value = Null THEN [err |-> "", value |-> Null]
    ELSE IF value.typeof # "string"
    THEN [err |-> "AssertionError [ERR_ASSERTION]", value |-> Null]
    ELSE [err |-> "", value |-> String(value.text)]

\* the entry _processResult stores
Processed(n, fname, hashId, dbIncId, sortingKeys, value) ==
    [id |-> hashId, type |-> fname,
     db_inc_id |-> IF n.includeOrder THEN <<dbIncId>> ELSE <<>>,
     sorting_keys |-> IF n.includeOrder THEN <<sortingKeys>> ELSE <<>>,
     name |-> value]

\* _processResult counting the results it stores
processResultCountingStored(n, fname, result, sortingKeys) ==
    LET hashId == "https://thingpedia.stanford.edu/ns/uuid/sgd/" \o hash(result)
        dbIncIds == IF fname \in DOMAIN n.dbIncIds
                    THEN [n.dbIncIds EXCEPT ![fname] = @ + 1]
                    ELSE Put(n.dbIncIds, fname, 1)
    IN  IF \E k \in 1..Len(n.output[fname]) : n.output[fname][k].id = hashId
        THEN [normalizer |-> n, err |-> ""]
        ELSE IF processField(result.name).err # ""
        THEN [normalizer |-> [n EXCEPT !.dbIncIds = dbIncIds],
              err |-> processField(result.name).err]
        ELSE [normalizer |->
                 [n EXCEPT !.dbIncIds = dbIncIds,
                           !.output[fname] =
                               Append(@, Processed(n, fname, hashId, dbIncIds[fname],
                                          sortingKeys, processField(result.name).value))],
              err |-> ""]

\* _processResult(fname, result, sortingKeys): the Normalizer after it, and
\* the error it throws
processResult(n, fname, result, sortingKeys) ==
    LET hashId == "https://thingpedia.stanford.edu/ns/uuid/sgd/" \o hash(result)
        dbIncIds == IF fname \in DOMAIN n.dbIncIds
                    THEN [n.dbIncIds EXCEPT ![fname] = @ + 1]
                    ELSE Put(n.dbIncIds, fname, 1)
    IN  IF \E k \in 1..Len(n.output[fname]) : n.output[fname][k].id = hashId
        THEN [normalizer |-> [n EXCEPT !.dbIncIds = dbIncIds], err |-> ""]
        ELSE IF processField(result.name).err # ""
        THEN [normalizer |-> [n EXCEPT !.dbIncIds = dbIncIds],
              err |-> processField(result.name).err]
        ELSE [normalizer |->
                 [n EXCEPT !.dbIncIds = dbIncIds,
                           !.output[fname] =
                               Append(@, Processed(n, fname, hashId, dbIncIds[fname],
                                          sortingKeys, processField(result.name).value))],
              err |-> ""]

\* if (!(fname in this.output)) this.output[fname] = {}
EnsureOutput(n, fname) ==
    IF fname \in DOMAIN n.output THEN n ELSE [n EXCEPT !.output = Put(@, fname, <<>>)]

InitNormalizer ==
    /\ pc = "process"
    /\ input = <<>>
    /\ keys = <<>> /\ th = <<>> /\ ekeys = <<>> /\ enums = <<>>
    /\ order = <<>>
    /\ hasGeo = FALSE
    /\ output = <<>>
    /\ err = ""
    /\ runs = 0
    /\ firstOutput = [output |-> <<>>, err |-> ""]
    /\ cfg = DefaultConfig
    /\ rq = NoCall
    /\ rs = NoReturn
    /\ creator = NoCreator
    /\ pushed = <<>>
    /\ \E include_order \in BOOLEAN : normalizer = Normalizer(include_order)

\* the first loop of process() on one result of a frame
ProcessResult ==
    /\ pc = "process"
    /\ Len(input) < MaxCalls
    /\ \E fname \in FunctionNames, result \in ServiceResults, sortingKeys \in SortingKeys :
          /\ input' = Append(input, [fname |-> fname, result |-> result,
                                     sortingKeys |-> sortingKeys])
          /\ normalizer' = processResult(EnsureOutput(normalizer, fname), fname, result,
                                         sortingKeys).normalizer
          /\ err' = processResult(EnsureOutput(normalizer, fname), fname, result,
                                  sortingKeys).err
          /\ pc' = IF err' # "" THEN "failed" ELSE "process"
    /\ UNCHANGED <<keys, th, ekeys, enums, order, hasGeo, output, runs,
                   firstOutput, cfg, rq, rs, creator, pushed>>

NextNormalizer == ProcessResult

SpecNormalizer == InitNormalizer /\ [][NextNormalizer]_vars

\* the calls of _processResult for fname so far, as positions of input
CallsOf(fname) == { c \in 1..Len(input) : input[c].fname = fname }

\* the call at position c is the first for its function with its result
FirstOccurrence(c) ==
    \A b \in 1..(c - 1) :
        ~(input[b].fname = input[c].fname /\ hash(input[b].result) = hash(input[c].result))

\* the entry is the one stored by the call at position c
StoredBy(entry, c) ==
    /\ entry.id = "https://thingpedia.stanford.edu/ns/uuid/sgd/" \o hash(input[c].result)
    /\ normalizer.includeOrder
          => entry.db_inc_id = <<Cardinality({ b \in CallsOf(input[c].fname) : b <= c })>>

\* C30: after any calls of _processResult, output[fname] has at most one entry
\* for a hash, that of the first call with this result, whatever the later
\* calls with it were; dbIncIds[fname] is the number of all the calls for
\* fname; and the '@db_inc_id's of the entries grow strictly in the order of
\* insertion.
C30_OneEntryPerHash ==
    pc \in {"process", "failed"}
        => \A fname \in DOMAIN normalizer.output :
              /\ normalizer.dbIncIds[fname] = Cardinality(CallsOf(fname))
              /\ \A a, b \in 1..Len(normalizer.output[fname]) :
                    a < b => /\ normalizer.output[fname][a].id # normalizer.output[fname][b].id
                             /\ normalizer.includeOrder
                                   => normalizer.output[fname][a].db_inc_id[1]
                                        < normalizer.output[fname][b].db_inc_id[1]
              /\ \A a \in 1..Len(normalizer.output[fname]) :
                    \E c \in CallsOf(fname) :
                        FirstOccurrence(c) /\ StoredBy(normalizer.output[fname][a], c)
              /\ \A c \in CallsOf(fname) :
                    (FirstOccurrence(c) /\ processField(input[c].result.name).err = "")
                       => \E a \in 1..Len(normalizer.output[fname]) :
                             StoredBy(normalizer.output[fname][a], c)

\* two entries of a function stored by its first and its third call, the
\* second call having had the result of the first
C30_Witness ==
    /\ pc = "process"
    /\ normalizer.includeOrder
    /\ \E fname \in DOMAIN normalizer.output :
          /\ Len(normalizer.output[fname]) = 2
          /\ normalizer.output[fname][1].db_inc_id = <<1>>
          /\ normalizer.output[fname][2].db_inc_id = <<3>>

====
